---- MODULE Spec2Model ----
(***************************************************************************)
(* State-machine model of the WaiterMan front end: the admin POS screen    *)
(* (cart, billing, order submission), the customer self-order screen, the  *)
(* order list, tables and reports pages, and the routes of the             *)
(* application.  Money is counted in cents; every price of the             *)
(* menu below is a whole number of dollars and every percentage a whole    *)
(* number, so that subtotal * pct / 100 is an exact integer.               *)
(***************************************************************************)
EXTENDS Integers, Sequences, FiniteSets

(* ---------- bounds of the model ---------- *)
MaxQty == 2
MaxInflight == 1
MaxClock == 2
MaxTables == 2
MaxHistory == 2

(* ---------- data served by the backend ---------- *)
\* an optional number is a sequence of length 0 (absent) or 1
Menu ==
  << [id |-> 1, name |-> "A", price |-> 5000, tax |-> <<400>>,
      pricing |-> [dine_in |-> 5000, takeaway |-> 4500, delivery |-> 5500]],
     [id |-> 2, name |-> "B", price |-> 1000, tax |-> <<>>,
      pricing |-> [dine_in |-> 1000, takeaway |-> 1000, delivery |-> 0]] >>


ItemIds == {Menu[k].id : k \in 1..Len(Menu)}
OrderTypes == {"dine_in", "takeaway", "delivery", "online"}
Texts == {"", "x"}
\* values typed into the two discount inputs
PercentInputs == {-5, 10, 150}
AmountInputs == {-700, 1500, 6000}
NoTable == [id |-> 0, status |-> "none"]
\* the table statuses the POS screen has a colour for
TableStatuses == {"available", "occupied", "reserved"}

VARIABLES route, cap,
          tables, menuItems, selectedTable, orderType, cart,
          customerName, customerPhone,
          discount, discountAmount, discountType,
          paymentOpen, noteDialogOpen, selectedItemForNote, itemNote,
          posts, tablesGets, menuGets,
          custMenuItems, custCart, custName, custPhone, custPosts, custMenuGets,
          orders, srvStatus, gets, patches,
          now, orderTime, elapsedTime,
          ordTables, ordTablesGets,
          tpTables, tpOpen, formData, tpPosts, tpDeletes, tpGets, srvTables,
          salesReport, itemsReport, loading, salesReq, itemsReq, settled,
          history, isAuthenticated, authLoading,
          toast, logged

posVars == <<tables, menuItems, selectedTable, orderType, cart,
             customerName, customerPhone,
             discount, discountAmount, discountType,
             paymentOpen, noteDialogOpen, selectedItemForNote, itemNote,
             posts, tablesGets, menuGets,
             now, orderTime, elapsedTime>>

\* state of the customer self-order screen (CustomerOrder)
custVars == <<custMenuItems, custCart, custName, custPhone, custPosts,
              custMenuGets>>

\* state of the order list page, and the order statuses held by the backend
ordVars == <<orders, srvStatus, gets, patches, ordTables, ordTablesGets>>

\* state of the tables page, and the tables held by the backend
tblVars == <<tpTables, tpOpen, formData, tpPosts, tpDeletes, tpGets, srvTables>>

\* state of the reports page and of its two requests
repVars == <<salesReport, itemsReport, loading, salesReq, itemsReq, settled>>

\* the browser's history and what useAuth() returns, read by AppRoutes
navVars == <<history, isAuthenticated, authLoading>>

vars == <<route, cap, navVars, posVars, custVars, ordVars, tblVars, repVars,
          toast, logged>>

\* the response of GET /tables: the backend's tables, with the fields the
\* POS screen and the order list read
ServerTables ==
  [k \in 1..Len(srvTables) |->
     [id |-> srvTables[k].id, status |-> srvTables[k].status]]

(* ---------- helpers standing for JavaScript built-ins ---------- *)
Max(a, b) == IF a >= b THEN a ELSE b
Min(a, b) == IF a <= b THEN a ELSE b
Range(s) == {s[k] : k \in 1..Len(s)}

\* Array.prototype.reduce((sum, x) => sum + f(x), 0)
RECURSIVE SumSeq(_)
SumSeq(s) == IF s = <<>> THEN 0 ELSE s[1] + SumSeq(Tail(s))

\* x || 0 on an optional number
OrZero(opt) == IF opt = <<>> THEN 0 ELSE opt[1]

\* JavaScript's undefined, as read from an array past its end
Undefined == "undefined"
Truthy(x) == x # Undefined /\ x # ""

\* x || undefined
OrUndefined(x) == IF Truthy(x) THEN x ELSE Undefined

\* a notification shown by sonner's toast.success / toast.error
Success(text) == [kind |-> "success", text |-> text]
Error(text) == [kind |-> "error", text |-> text]

(* ---------- admin POS screen: pure parts ---------- *)
\* the price expression of addToCart
ChannelPrice(item, ot) ==
  IF ot = "dine_in" THEN item.pricing.dine_in
  ELSE IF ot = "takeaway" THEN item.pricing.takeaway
  ELSE IF item.pricing.delivery # 0 THEN item.pricing.delivery
  ELSE item.price

\* the price printed on the menu card of an item
MenuCardPrice(item, ot) ==
  IF ot = "dine_in" THEN item.pricing.dine_in
  ELSE IF ot = "takeaway" THEN item.pricing.takeaway
  ELSE IF item.pricing.delivery # 0 THEN item.pricing.delivery
  ELSE item.price

\* addToCart without the lookup of an existing line
CartAddDup(c, item, ot) ==
  Append(c, [item_id |-> item.id, item_name |-> item.name,
             quantity |-> 1, price |-> MenuCardPrice(item, ot),
             tax |-> IF item.tax = <<>> THEN 0 ELSE item.tax[1], notes |-> ""])

\* addToCart refreshing the price of the existing line for the channel
CartAddReprice(c, item, ot) ==
  IF \E k \in 1..Len(c) : c[k].item_id = item.id
  THEN [k \in 1..Len(c) |->
          IF c[k].item_id = item.id
          THEN [c[k] EXCEPT !.quantity = c[k].quantity + 1,
                            !.price = MenuCardPrice(item, ot)]
          ELSE c[k]]
  ELSE Append(c, [item_id |-> item.id, item_name |-> item.name,
                  quantity |-> 1, price |-> MenuCardPrice(item, ot),
                  tax |-> IF item.tax = <<>> THEN 0 ELSE item.tax[1], notes |-> ""])

\* the new cart computed by addToCart
CartAdd(c, item, ot) ==
  IF \E k \in 1..Len(c) : c[k].item_id = item.id
  THEN [k \in 1..Len(c) |->
          IF c[k].item_id = item.id
          THEN [c[k] EXCEPT !.quantity = c[k].quantity + 1]
          ELSE c[k]]
  ELSE Append(c, [item_id |-> item.id, item_name |-> item.name,
                  quantity |-> 1, price |-> ChannelPrice(item, ot),
                  tax |-> OrZero(item.tax), notes |-> ""])

\* updateQuantity without Math.max(1, ...)
CartUpdateQuantityNoFloor(c, itemId, delta) ==
  [k \in 1..Len(c) |->
     IF c[k].item_id = itemId
     THEN [c[k] EXCEPT !.quantity = c[k].quantity + delta]
     ELSE c[k]]

\* the new cart computed by updateQuantity
CartUpdateQuantity(c, itemId, delta) ==
  [k \in 1..Len(c) |->
     IF c[k].item_id = itemId
     THEN [c[k] EXCEPT !.quantity = Max(1, c[k].quantity + delta)]
     ELSE c[k]]

\* the filter of removeFromCart with === for !==
KeepLineInverted(line, itemId) == line.item_id = itemId

KeepLine(line, itemId) == line.item_id # itemId

\* the new cart computed by removeFromCart
CartRemove(c, itemId) ==
  LET Keep(line) == KeepLine(line, itemId) IN SelectSeq(c, Keep)

\* the new cart computed by saveNote
CartSetNote(c, itemId, note) ==
  [k \in 1..Len(c) |->
     IF c[k].item_id = itemId THEN [c[k] EXCEPT !.notes = note] ELSE c[k]]

\* calculateTotals with the quantity left out of the subtotal
calculateTotalsNoQty(c, pct, amt, kind) ==
  LET subtotal == SumSeq([k \in 1..Len(c) |-> c[k].price])
      tax == SumSeq([k \in 1..Len(c) |-> c[k].tax * c[k].quantity])
      discountAmt == IF kind = "percentage" THEN (subtotal * pct) \div 100
                     ELSE amt
  IN [subtotal |-> subtotal, tax |-> tax, discountAmt |-> discountAmt,
      total |-> subtotal + tax - discountAmt]

\* calculateTotals with the tax left out of the total
calculateTotalsNoTax(c, pct, amt, kind) ==
  LET subtotal == SumSeq([k \in 1..Len(c) |-> c[k].price * c[k].quantity])
      tax == SumSeq([k \in 1..Len(c) |-> c[k].tax * c[k].quantity])
      discountAmt == IF kind = "percentage" THEN (subtotal * pct) \div 100
                     ELSE amt
  IN [subtotal |-> subtotal, tax |-> tax, discountAmt |-> discountAmt,
      total |-> subtotal - discountAmt]

\* calculateTotals applying the percentage and the fixed amount together
calculateTotalsBothDiscounts(c, pct, amt, kind) ==
  LET subtotal == SumSeq([k \in 1..Len(c) |-> c[k].price * c[k].quantity])
      tax == SumSeq([k \in 1..Len(c) |-> c[k].tax * c[k].quantity])
      discountAmt == (subtotal * pct) \div 100 + amt
  IN [subtotal |-> subtotal, tax |-> tax, discountAmt |-> discountAmt,
      total |-> subtotal + tax - discountAmt]

calculateTotals(c, pct, amt, kind) ==
  LET subtotal == SumSeq([k \in 1..Len(c) |-> c[k].price * c[k].quantity])
      tax == SumSeq([k \in 1..Len(c) |-> c[k].tax * c[k].quantity])
      discountAmt == IF kind = "percentage" THEN (subtotal * pct) \div 100
                     ELSE amt
  IN [subtotal |-> subtotal, tax |-> tax, discountAmt |-> discountAmt,
      total |-> subtotal + tax - discountAmt]

\* the percentage taken from subtotal plus tax
calculateTotalsPctOfGross(c, pct) ==
  LET subtotal == SumSeq([k \in 1..Len(c) |-> c[k].price * c[k].quantity])
      tax == SumSeq([k \in 1..Len(c) |-> c[k].tax * c[k].quantity])
      discountAmt == ((subtotal + tax) * pct) \div 100
  IN [subtotal |-> subtotal, tax |-> tax, discountAmt |-> discountAmt,
      total |-> subtotal + tax - discountAmt]

\* calculateTotals of the POS variant whose only discount is a percentage
calculateTotalsPct(c, pct) ==
  LET subtotal == SumSeq([k \in 1..Len(c) |-> c[k].price * c[k].quantity])
      tax == SumSeq([k \in 1..Len(c) |-> c[k].tax * c[k].quantity])
      discountAmt == (subtotal * pct) \div 100
  IN [subtotal |-> subtotal, tax |-> tax, discountAmt |-> discountAmt,
      total |-> subtotal + tax - discountAmt]

\* the values rendered by the POS screen
Totals == calculateTotals(cart, discount, discountAmount, discountType)

\* the percentage clamp without Math.min(100, ...)
ClampPercentNoCap(v) == Max(0, v)

ClampPercent(v) == Max(0, Min(100, v))
ClampAmount(v) == Max(0, v)

QtyOf(c, itemId) ==
  SumSeq([k \in 1..Len(c) |-> IF c[k].item_id = itemId THEN c[k].quantity ELSE 0])

(* ---------- admin POS screen: handlers ---------- *)
OnPOS == route = "pos"

addToCart(item) ==
  /\ OnPOS
  /\ item \in Range(menuItems)
  /\ QtyOf(cart, item.id) < MaxQty
  /\ cart' = CartAdd(cart, item, orderType)
  /\ toast' = <<Success(item.name \o " added")>>
  /\ logged' = <<>>
  /\ UNCHANGED <<route, cap, navVars, tblVars, repVars, custVars, ordVars, now, orderTime, elapsedTime, tables, menuItems, selectedTable, orderType,
                 customerName, customerPhone, discount, discountAmount,
                 discountType, paymentOpen, noteDialogOpen,
                 selectedItemForNote, itemNote, posts, tablesGets, menuGets>>

updateQuantity(itemId, delta) ==
  /\ OnPOS
  /\ \E k \in 1..Len(cart) : cart[k].item_id = itemId
  /\ QtyOf(cart, itemId) + delta <= MaxQty
  /\ cart' = CartUpdateQuantity(cart, itemId, delta)
  /\ toast' = <<>>
  /\ logged' = <<>>
  /\ UNCHANGED <<route, cap, navVars, tblVars, repVars, custVars, ordVars, now, orderTime, elapsedTime, tables, menuItems, selectedTable, orderType,
                 customerName, customerPhone, discount, discountAmount,
                 discountType, paymentOpen, noteDialogOpen,
                 selectedItemForNote, itemNote, posts, tablesGets, menuGets>>

\* applied to any item id: for one that has no line nothing changes
removeFromCart(itemId) ==
  /\ OnPOS
  /\ cart' = CartRemove(cart, itemId)
  /\ toast' = <<>>
  /\ logged' = <<>>
  /\ UNCHANGED <<route, cap, navVars, tblVars, repVars, custVars, ordVars, now, orderTime, elapsedTime, tables, menuItems, selectedTable, orderType,
                 customerName, customerPhone, discount, discountAmount,
                 discountType, paymentOpen, noteDialogOpen,
                 selectedItemForNote, itemNote, posts, tablesGets, menuGets>>

\* <Button onClick={() => setOrderType(type)}>
setOrderType(type) ==
  /\ OnPOS
  /\ orderType' = type
  /\ toast' = <<>>
  /\ logged' = <<>>
  /\ UNCHANGED <<route, cap, navVars, tblVars, repVars, custVars, ordVars, now, orderTime, elapsedTime, tables, menuItems, selectedTable, cart,
                 customerName, customerPhone, discount, discountAmount,
                 discountType, paymentOpen, noteDialogOpen,
                 selectedItemForNote, itemNote, posts, tablesGets, menuGets>>

\* the table cards are rendered for the dine-in channel only
setSelectedTable(table) ==
  /\ OnPOS
  /\ orderType = "dine_in"
  /\ table \in Range(tables)
  /\ selectedTable' = table
  /\ toast' = <<>>
  /\ logged' = <<>>
  /\ UNCHANGED <<route, cap, navVars, tblVars, repVars, custVars, ordVars, now, orderTime, elapsedTime, tables, menuItems, orderType, cart,
                 customerName, customerPhone, discount, discountAmount,
                 discountType, paymentOpen, noteDialogOpen,
                 selectedItemForNote, itemNote, posts, tablesGets, menuGets>>

\* the customer inputs are rendered for every channel but dine-in
setCustomerName(text) ==
  /\ OnPOS
  /\ orderType # "dine_in"
  /\ customerName' = text
  /\ toast' = <<>>
  /\ logged' = <<>>
  /\ UNCHANGED <<route, cap, navVars, tblVars, repVars, custVars, ordVars, now, orderTime, elapsedTime, tables, menuItems, selectedTable, orderType, cart,
                 customerPhone, discount, discountAmount,
                 discountType, paymentOpen, noteDialogOpen,
                 selectedItemForNote, itemNote, posts, tablesGets, menuGets>>

setCustomerPhone(text) ==
  /\ OnPOS
  /\ orderType # "dine_in"
  /\ customerPhone' = text
  /\ toast' = <<>>
  /\ logged' = <<>>
  /\ UNCHANGED <<route, cap, navVars, tblVars, repVars, custVars, ordVars, now, orderTime, elapsedTime, tables, menuItems, selectedTable, orderType, cart,
                 customerName, discount, discountAmount,
                 discountType, paymentOpen, noteDialogOpen,
                 selectedItemForNote, itemNote, posts, tablesGets, menuGets>>

\* the discount dialog lives in the billing block, rendered while the cart
\* is not empty
setDiscountType(kind) ==
  /\ OnPOS
  /\ cart # <<>>
  /\ discountType' = kind
  /\ toast' = <<>>
  /\ logged' = <<>>
  /\ UNCHANGED <<route, cap, navVars, tblVars, repVars, custVars, ordVars, now, orderTime, elapsedTime, tables, menuItems, selectedTable, orderType, cart,
                 customerName, customerPhone, discount, discountAmount,
                 paymentOpen, noteDialogOpen,
                 selectedItemForNote, itemNote, posts, tablesGets, menuGets>>

\* onChange of the percentage input, shown while the kind is percentage
setDiscount(typed) ==
  /\ OnPOS
  /\ cart # <<>>
  /\ discountType = "percentage"
  /\ discount' = ClampPercent(typed)
  /\ toast' = <<>>
  /\ logged' = <<>>
  /\ UNCHANGED <<route, cap, navVars, tblVars, repVars, custVars, ordVars, now, orderTime, elapsedTime, tables, menuItems, selectedTable, orderType, cart,
                 customerName, customerPhone, discountAmount,
                 discountType, paymentOpen, noteDialogOpen,
                 selectedItemForNote, itemNote, posts, tablesGets, menuGets>>

\* onChange of the amount input, shown while the kind is fixed
setDiscountAmount(typed) ==
  /\ OnPOS
  /\ cart # <<>>
  /\ discountType # "percentage"
  /\ discountAmount' = ClampAmount(typed)
  /\ toast' = <<>>
  /\ logged' = <<>>
  /\ UNCHANGED <<route, cap, navVars, tblVars, repVars, custVars, ordVars, now, orderTime, elapsedTime, tables, menuItems, selectedTable, orderType, cart,
                 customerName, customerPhone, discount,
                 discountType, paymentOpen, noteDialogOpen,
                 selectedItemForNote, itemNote, posts, tablesGets, menuGets>>

openNoteDialog(itemId) ==
  /\ OnPOS
  /\ \E k \in 1..Len(cart) :
       /\ cart[k].item_id = itemId
       /\ itemNote' = cart[k].notes
  /\ selectedItemForNote' = itemId
  /\ noteDialogOpen' = TRUE
  /\ toast' = <<>>
  /\ logged' = <<>>
  /\ UNCHANGED <<route, cap, navVars, tblVars, repVars, custVars, ordVars, now, orderTime, elapsedTime, tables, menuItems, selectedTable, orderType, cart,
                 customerName, customerPhone, discount, discountAmount,
                 discountType, paymentOpen, posts, tablesGets, menuGets>>

\* onChange of the note text area
setItemNote(text) ==
  /\ OnPOS
  /\ noteDialogOpen
  /\ itemNote' = text
  /\ toast' = <<>>
  /\ logged' = <<>>
  /\ UNCHANGED <<route, cap, navVars, tblVars, repVars, custVars, ordVars, now, orderTime, elapsedTime, tables, menuItems, selectedTable, orderType, cart,
                 customerName, customerPhone, discount, discountAmount,
                 discountType, paymentOpen, noteDialogOpen,
                 selectedItemForNote, posts, tablesGets, menuGets>>

\* Cancel button of the note dialog
cancelNote ==
  /\ OnPOS
  /\ noteDialogOpen
  /\ noteDialogOpen' = FALSE
  /\ toast' = <<>>
  /\ logged' = <<>>
  /\ UNCHANGED <<route, cap, navVars, tblVars, repVars, custVars, ordVars, now, orderTime, elapsedTime, tables, menuItems, selectedTable, orderType, cart,
                 customerName, customerPhone, discount, discountAmount,
                 discountType, paymentOpen, selectedItemForNote, itemNote,
                 posts, tablesGets, menuGets>>

saveNote ==
  /\ OnPOS
  /\ noteDialogOpen
  /\ cart' = CartSetNote(cart, selectedItemForNote, itemNote)
  /\ noteDialogOpen' = FALSE
  /\ itemNote' = ""
  /\ toast' = <<Success("Note added")>>
  /\ logged' = <<>>
  /\ UNCHANGED <<route, cap, navVars, tblVars, repVars, custVars, ordVars, now, orderTime, elapsedTime, tables, menuItems, selectedTable, orderType,
                 customerName, customerPhone, discount, discountAmount,
                 discountType, paymentOpen, selectedItemForNote,
                 posts, tablesGets, menuGets>>

\* a payload that also carries the discount and the discounted total
OrderPayloadWithDiscount ==
  [table_id |-> IF orderType = "dine_in" THEN selectedTable.id ELSE 0,
   order_type |-> orderType,
   items |-> cart,
   customer_name |-> OrUndefined(customerName),
   customer_phone |-> OrUndefined(customerPhone),
   discount |-> Totals.discountAmt,
   total |-> Totals.total]

\* the payload of POST /orders built by handlePlaceOrder
OrderPayload ==
  [table_id |-> IF orderType = "dine_in" THEN selectedTable.id ELSE 0,
   order_type |-> orderType,
   items |-> cart,
   customer_name |-> OrUndefined(customerName),
   customer_phone |-> OrUndefined(customerPhone)]

\* handlePlaceOrder without its second early return
PlaceOrderGuardCartOnly(c, ot, table) ==
  Len(c) # 0

\* handlePlaceOrder with a third early return, on a negative grand total
PlaceOrderGuardNonNegative(c, ot, table) ==
  /\ Len(c) # 0
  /\ ~(ot = "dine_in" /\ table = NoTable)
  /\ Totals.total >= 0

\* the message of the early return taken by handlePlaceOrder
GuardToast(c) ==
  IF Len(c) = 0 THEN Error("Cart is empty") ELSE Error("Please select a table")

\* what processPayment shows once handlePlaceOrder has returned; the amount
\* and the payment method printed in the message are left out
PaymentToast(payment) ==
  IF payment THEN <<Success("Payment processed")>> ELSE <<>>

\* the two early returns of handlePlaceOrder
PlaceOrderGuard(c, ot, table) ==
  /\ Len(c) # 0
  /\ ~(ot = "dine_in" /\ table = NoTable)

\* cap is the number of requests a page may have in flight at once
CanSend == Len(posts) + tablesGets < cap

\* handlePlaceOrder up to its await; payment tells whether processPayment
\* is the caller, which closes the payment dialog once the call returns
PlaceOrderStart(payment) ==
  IF PlaceOrderGuard(cart, orderType, selectedTable)
  THEN /\ CanSend
       /\ posts' = Append(posts, [payload |-> OrderPayload, payment |-> payment])
       /\ toast' = <<>>
       /\ logged' = <<>>
       /\ UNCHANGED paymentOpen
  ELSE /\ paymentOpen' = IF payment THEN FALSE ELSE paymentOpen
       /\ toast' = <<GuardToast(cart)>> \o PaymentToast(payment)
       /\ logged' = <<>>
       /\ UNCHANGED posts

\* Save button, rendered while the cart is not empty
handlePlaceOrder ==
  /\ OnPOS
  /\ cart # <<>>
  /\ PlaceOrderStart(FALSE)
  /\ UNCHANGED <<route, cap, navVars, tblVars, repVars, custVars, ordVars, now, orderTime, elapsedTime, tables, menuItems, selectedTable, orderType, cart,
                 customerName, customerPhone, discount, discountAmount,
                 discountType, noteDialogOpen, selectedItemForNote, itemNote,
                 tablesGets, menuGets>>

\* Payment button, rendered while the cart is not empty
handlePayment ==
  /\ OnPOS
  /\ cart # <<>>
  /\ paymentOpen' = TRUE
  /\ toast' = <<>>
  /\ logged' = <<>>
  /\ UNCHANGED <<route, cap, navVars, tblVars, repVars, custVars, ordVars, now, orderTime, elapsedTime, tables, menuItems, selectedTable, orderType, cart,
                 customerName, customerPhone, discount, discountAmount,
                 discountType, noteDialogOpen, selectedItemForNote, itemNote,
                 posts, tablesGets, menuGets>>

\* a payment method button of the payment dialog
processPayment ==
  /\ OnPOS
  /\ paymentOpen
  /\ PlaceOrderStart(TRUE)
  /\ UNCHANGED <<route, cap, navVars, tblVars, repVars, custVars, ordVars, now, orderTime, elapsedTime, tables, menuItems, selectedTable, orderType, cart,
                 customerName, customerPhone, discount, discountAmount,
                 discountType, noteDialogOpen, selectedItemForNote, itemNote,
                 tablesGets, menuGets>>

\* resetOrder without setDiscountAmount(0)
resetOrderKeepsAmount ==
  /\ OnPOS
  /\ cart # <<>>
  /\ cart' = <<>>
  /\ customerName' = ""
  /\ customerPhone' = ""
  /\ selectedTable' = NoTable
  /\ discount' = 0
  /\ orderTime' = now
  /\ elapsedTime' = 0
  /\ toast' = <<>>
  /\ logged' = <<>>
  /\ UNCHANGED <<route, cap, navVars, tblVars, repVars, custVars, ordVars, now, tables, menuItems, orderType, discountType,
                 discountAmount, paymentOpen, noteDialogOpen, selectedItemForNote,
                 itemNote, posts, tablesGets, menuGets>>

\* X button of the cart header, rendered while the cart is not empty
resetOrder ==
  /\ OnPOS
  /\ cart # <<>>
  /\ cart' = <<>>
  /\ customerName' = ""
  /\ customerPhone' = ""
  /\ selectedTable' = NoTable
  /\ discount' = 0
  /\ discountAmount' = 0
  /\ orderTime' = now
  /\ elapsedTime' = 0
  /\ toast' = <<>>
  /\ logged' = <<>>
  /\ UNCHANGED <<route, cap, navVars, tblVars, repVars, custVars, ordVars, now, tables, menuItems, orderType, discountType,
                 paymentOpen, noteDialogOpen, selectedItemForNote, itemNote,
                 posts, tablesGets, menuGets>>

DropAt(s, k) == SubSeq(s, 1, k - 1) \o SubSeq(s, k + 1, Len(s))

\* POST /orders answered 2xx: the rest of handlePlaceOrder's try block
\* (resetOrder, fetchTables), then the caller's continuation
PlaceOrderOk(k) ==
  /\ OnPOS
  /\ k \in 1..Len(posts)
  /\ posts' = DropAt(posts, k)
  /\ cart' = <<>>
  /\ customerName' = ""
  /\ customerPhone' = ""
  /\ selectedTable' = NoTable
  /\ discount' = 0
  /\ discountAmount' = 0
  /\ tablesGets' = tablesGets + 1
  /\ paymentOpen' = IF posts[k].payment THEN FALSE ELSE paymentOpen
  /\ orderTime' = now
  /\ elapsedTime' = 0
  /\ toast' = <<Success("Order placed successfully!")>> \o PaymentToast(posts[k].payment)
  /\ logged' = <<>>
  /\ UNCHANGED <<route, cap, navVars, tblVars, repVars, custVars, ordVars, now, tables, menuItems, orderType, discountType,
                 noteDialogOpen, selectedItemForNote, itemNote, menuGets>>

\* POST /orders rejected: the catch block, then the caller's continuation
PlaceOrderFailed(k) ==
  /\ OnPOS
  /\ k \in 1..Len(posts)
  /\ posts' = DropAt(posts, k)
  /\ paymentOpen' = IF posts[k].payment THEN FALSE ELSE paymentOpen
  /\ toast' = <<Error("Failed to place order")>> \o PaymentToast(posts[k].payment)
  /\ logged' = <<"Error placing order:">>
  /\ UNCHANGED <<route, cap, navVars, tblVars, repVars, custVars, ordVars, now, orderTime, elapsedTime, tables, menuItems, selectedTable, orderType, cart,
                 customerName, customerPhone, discount, discountAmount,
                 discountType, noteDialogOpen, selectedItemForNote, itemNote,
                 tablesGets, menuGets>>

\* GET /tables answered; a failure only logs
fetchTablesDone(ok) ==
  /\ OnPOS
  /\ tablesGets > 0
  /\ tablesGets' = tablesGets - 1
  /\ tables' = IF ok THEN ServerTables ELSE tables
  /\ toast' = <<>>
  /\ logged' = IF ok THEN <<>> ELSE <<"Error fetching tables:">>
  /\ UNCHANGED <<route, cap, navVars, tblVars, repVars, custVars, ordVars, now, orderTime, elapsedTime, menuItems, selectedTable, orderType, cart,
                 customerName, customerPhone, discount, discountAmount,
                 discountType, paymentOpen, noteDialogOpen,
                 selectedItemForNote, itemNote, posts, menuGets>>

\* GET /menu/items answered with data; a failure only logs
fetchMenuItemsDone(ok, data) ==
  /\ OnPOS
  /\ menuGets > 0
  /\ menuGets' = menuGets - 1
  /\ menuItems' = IF ok THEN data ELSE menuItems
  /\ toast' = <<>>
  /\ logged' = IF ok THEN <<>> ELSE <<"Error fetching menu:">>
  /\ UNCHANGED <<route, cap, navVars, tblVars, repVars, custVars, ordVars, now, orderTime, elapsedTime, tables, selectedTable, orderType, cart,
                 customerName, customerPhone, discount, discountAmount,
                 discountType, paymentOpen, noteDialogOpen,
                 selectedItemForNote, itemNote, posts, tablesGets>>

\* the interval timer of the POS screen fires, one second after the last time
Tick ==
  /\ OnPOS
  /\ now < MaxClock
  /\ now' = now + 1
  /\ elapsedTime' = now' - orderTime
  /\ toast' = <<>>
  /\ logged' = <<>>
  /\ UNCHANGED <<route, cap, navVars, tblVars, repVars, custVars, ordVars, orderTime, tables, menuItems, selectedTable,
                 orderType, cart, customerName, customerPhone, discount,
                 discountAmount, discountType, paymentOpen, noteDialogOpen,
                 selectedItemForNote, itemNote, posts, tablesGets, menuGets>>

\* the state of a freshly mounted POS screen, its mount effect having issued
\* GET /tables and GET /menu/items
InitPOS ==
  /\ tables = <<>>
  /\ menuItems = <<>>
  /\ selectedTable = NoTable
  /\ orderType = "dine_in"
  /\ cart = <<>>
  /\ customerName = ""
  /\ customerPhone = ""
  /\ discount = 0
  /\ discountAmount = 0
  /\ discountType = "percentage"
  /\ paymentOpen = FALSE
  /\ noteDialogOpen = FALSE
  /\ selectedItemForNote = 0
  /\ itemNote = ""
  /\ posts = <<>>
  /\ tablesGets = 1
  /\ menuGets = 1
  /\ now = 0
  /\ orderTime = 0
  /\ elapsedTime = 0

(* ---------- customer self-order screen ---------- *)
OnCustomer == route = "customer"

\* the :tableId parameter of the route the screen was opened with
tableId == 1

\* CustomerOrder.addToCart without the lookup of an existing line
CustomerCartAddDup(c, item) ==
  Append(c, [item_id |-> item.id, item_name |-> item.name,
             quantity |-> 1, price |-> item.price, tax |-> item.tax])

\* the new cart computed by CustomerOrder.addToCart
CustomerCartAdd(c, item) ==
  IF \E k \in 1..Len(c) : c[k].item_id = item.id
  THEN [k \in 1..Len(c) |->
          IF c[k].item_id = item.id
          THEN [c[k] EXCEPT !.quantity = c[k].quantity + 1]
          ELSE c[k]]
  ELSE Append(c, [item_id |-> item.id, item_name |-> item.name,
                  quantity |-> 1, price |-> item.price, tax |-> item.tax])

\* the filter of CustomerOrder.updateQuantity with >= for >
NonNegativeQuantity(line) == line.quantity >= 0

PositiveQuantity(line) == line.quantity > 0

\* the new cart computed by CustomerOrder.updateQuantity
CustomerCartUpdateQuantity(c, itemId, delta) ==
  SelectSeq([k \in 1..Len(c) |->
               IF c[k].item_id = itemId
               THEN [c[k] EXCEPT !.quantity = c[k].quantity + delta]
               ELSE c[k]],
            PositiveQuantity)

\* cartTotal of CustomerOrder
cartTotal(c) == SumSeq([k \in 1..Len(c) |-> c[k].price * c[k].quantity])

CustomerAddToCart(item) ==
  /\ OnCustomer
  /\ item \in Range(custMenuItems)
  /\ QtyOf(custCart, item.id) < MaxQty
  /\ custCart' = CustomerCartAdd(custCart, item)
  /\ toast' = <<Success(item.name \o " added to cart")>>
  /\ logged' = <<>>
  /\ UNCHANGED <<route, cap, navVars, tblVars, repVars, posVars, ordVars, custMenuItems, custName, custPhone,
                 custPosts, custMenuGets>>

CustomerUpdateQuantity(itemId, delta) ==
  /\ OnCustomer
  /\ \E k \in 1..Len(custCart) : custCart[k].item_id = itemId
  /\ QtyOf(custCart, itemId) + delta <= MaxQty
  /\ custCart' = CustomerCartUpdateQuantity(custCart, itemId, delta)
  /\ toast' = <<>>
  /\ logged' = <<>>
  /\ UNCHANGED <<route, cap, navVars, tblVars, repVars, posVars, ordVars, custMenuItems, custName, custPhone,
                 custPosts, custMenuGets>>

CustomerRemoveFromCart(itemId) ==
  /\ OnCustomer
  /\ custCart' = CartRemove(custCart, itemId)
  /\ toast' = <<>>
  /\ logged' = <<>>
  /\ UNCHANGED <<route, cap, navVars, tblVars, repVars, posVars, ordVars, custMenuItems, custName, custPhone,
                 custPosts, custMenuGets>>

\* the name and phone inputs are rendered while the cart is not empty
CustomerSetName(text) ==
  /\ OnCustomer
  /\ custCart # <<>>
  /\ custName' = text
  /\ toast' = <<>>
  /\ logged' = <<>>
  /\ UNCHANGED <<route, cap, navVars, tblVars, repVars, posVars, ordVars, custMenuItems, custCart, custPhone,
                 custPosts, custMenuGets>>

CustomerSetPhone(text) ==
  /\ OnCustomer
  /\ custCart # <<>>
  /\ custPhone' = text
  /\ toast' = <<>>
  /\ logged' = <<>>
  /\ UNCHANGED <<route, cap, navVars, tblVars, repVars, posVars, ordVars, custMenuItems, custCart, custName,
                 custPosts, custMenuGets>>

\* placeOrder up to its await; the button is rendered while the cart is not
\* empty, so the empty-cart return is never taken from a click
placeOrder ==
  /\ OnCustomer
  /\ custCart # <<>>
  /\ Len(custPosts) < cap
  /\ custPosts' = Append(custPosts,
                         [table_id |-> tableId, order_type |-> "dine_in",
                          items |-> custCart,
                          customer_name |-> OrUndefined(custName),
                          customer_phone |-> OrUndefined(custPhone)])
  /\ toast' = <<>>
  /\ logged' = <<>>
  /\ UNCHANGED <<route, cap, navVars, tblVars, repVars, posVars, ordVars, custMenuItems, custCart, custName,
                 custPhone, custMenuGets>>

\* the success path of placeOrder without its three setters
placeOrderOkKeepsCart(k) ==
  /\ OnCustomer
  /\ k \in 1..Len(custPosts)
  /\ custPosts' = DropAt(custPosts, k)
  /\ toast' = <<Success("Order placed successfully!")>>
  /\ logged' = <<>>
  /\ UNCHANGED <<route, cap, navVars, tblVars, repVars, posVars, ordVars, custMenuItems, custCart, custName,
                 custPhone, custMenuGets>>

\* POST /orders answered 2xx: the rest of placeOrder's try block
placeOrderOk(k) ==
  /\ OnCustomer
  /\ k \in 1..Len(custPosts)
  /\ custPosts' = DropAt(custPosts, k)
  /\ custCart' = <<>>
  /\ custName' = ""
  /\ custPhone' = ""
  /\ toast' = <<Success("Order placed successfully!")>>
  /\ logged' = <<>>
  /\ UNCHANGED <<route, cap, navVars, tblVars, repVars, posVars, ordVars, custMenuItems, custMenuGets>>

\* POST /orders rejected: the catch block
placeOrderFailed(k) ==
  /\ OnCustomer
  /\ k \in 1..Len(custPosts)
  /\ custPosts' = DropAt(custPosts, k)
  /\ toast' = <<Error("Failed to place order")>>
  /\ logged' = <<"Error placing order:">>
  /\ UNCHANGED <<route, cap, navVars, tblVars, repVars, posVars, ordVars, custMenuItems, custCart, custName,
                 custPhone, custMenuGets>>

\* GET /menu/items answered; a failure only logs
CustomerFetchMenuItemsDone(ok) ==
  /\ OnCustomer
  /\ custMenuGets > 0
  /\ custMenuGets' = custMenuGets - 1
  /\ custMenuItems' = IF ok THEN Menu ELSE custMenuItems
  /\ toast' = <<>>
  /\ logged' = IF ok THEN <<>> ELSE <<"Error fetching menu:">>
  /\ UNCHANGED <<route, cap, navVars, tblVars, repVars, posVars, ordVars, custCart, custName, custPhone,
                 custPosts>>

\* the state of a freshly mounted CustomerOrder, GET /menu/items issued
InitCustomer ==
  /\ custMenuItems = <<>>
  /\ custCart = <<>>
  /\ custName = ""
  /\ custPhone = ""
  /\ custPosts = <<>>
  /\ custMenuGets = 1

(* ---------- order list page ---------- *)
OnOrders == route = "orders"

statusFlow == <<"pending", "preparing", "ready", "served", "completed">>

\* Array.prototype.indexOf: a 0-based index, -1 when x is not in s
IndexOf(s, x) ==
  IF \E k \in 1..Len(s) : s[k] = x
  THEN (CHOOSE k \in 1..Len(s) : s[k] = x /\ \A j \in 1..(k - 1) : s[j] # x) - 1
  ELSE -1

\* s[i] of a JavaScript array, i 0-based
At(s, i) == IF i >= 0 /\ i < Len(s) THEN s[i + 1] ELSE Undefined

\* nextStatus read one place too far
nextStatusOffByOne(status) == At(statusFlow, IndexOf(statusFlow, status) + 2)

\* const nextStatus = statusFlow[statusFlow.indexOf(order.order_status) + 1]
nextStatus(status) == At(statusFlow, IndexOf(statusFlow, status) + 1)

\* the advance button rendered whenever nextStatus is truthy
AdvanceShownNoStatusTest(order) ==
  Truthy(nextStatus(order.order_status))

\* the condition under which the advance button of an order card is rendered
AdvanceShown(order) ==
  /\ Truthy(nextStatus(order.order_status))
  /\ order.order_status # "completed"
  /\ order.order_status # "cancelled"

OrderIds == {1, 2}

\* the response of GET /orders computed from the backend's statuses
OrdersData == << [id |-> 1, order_status |-> srvStatus[1]],
                 [id |-> 2, order_status |-> srvStatus[2]] >>

\* updateOrderStatus sending only when the displayed status is still the
\* backend's
updateOrderStatusIfCurrent(k) ==
  /\ OnOrders
  /\ k \in 1..Len(orders)
  /\ AdvanceShown(orders[k])
  /\ srvStatus[orders[k].id] = orders[k].order_status
  /\ Len(gets) + Len(patches) < cap
  /\ patches' = Append(patches, [id |-> orders[k].id,
                                 order_status |-> nextStatus(orders[k].order_status)])
  /\ toast' = <<>>
  /\ logged' = <<>>
  /\ UNCHANGED <<route, cap, navVars, tblVars, repVars, posVars, custVars, ordTables, ordTablesGets, orders, srvStatus, gets>>

\* click on the advance button of the k-th order card: updateOrderStatus
\* up to its await
updateOrderStatus(k) ==
  /\ OnOrders
  /\ k \in 1..Len(orders)
  /\ AdvanceShown(orders[k])
  /\ Len(gets) + Len(patches) < cap
  /\ patches' = Append(patches, [id |-> orders[k].id,
                                 order_status |-> nextStatus(orders[k].order_status)])
  /\ toast' = <<>>
  /\ logged' = <<>>
  /\ UNCHANGED <<route, cap, navVars, tblVars, repVars, posVars, custVars, ordTables, ordTablesGets, orders, srvStatus, gets>>

\* the success path patching the displayed list itself, without a new GET
updateOrderStatusOkLocal(k) ==
  /\ OnOrders
  /\ k \in 1..Len(patches)
  /\ srvStatus' = [srvStatus EXCEPT ![patches[k].id] = patches[k].order_status]
  /\ patches' = DropAt(patches, k)
  /\ orders' = [n \in 1..Len(orders) |->
                  IF orders[n].id = patches[k].id
                  THEN [orders[n] EXCEPT !.order_status = patches[k].order_status]
                  ELSE orders[n]]
  /\ toast' = <<Success("Order status updated")>>
  /\ logged' = <<>>
  /\ UNCHANGED <<route, cap, navVars, tblVars, repVars, posVars, custVars, ordTables, ordTablesGets, gets>>

\* PATCH /orders/{id}/status accepted by the backend and answered 2xx: the
\* rest of the try block calls fetchOrders
updateOrderStatusOk(k) ==
  /\ OnOrders
  /\ k \in 1..Len(patches)
  /\ srvStatus' = [srvStatus EXCEPT ![patches[k].id] = patches[k].order_status]
  /\ patches' = DropAt(patches, k)
  /\ gets' = Append(gets, [served |-> FALSE, data |-> <<>>])
  /\ toast' = <<Success("Order status updated")>>
  /\ logged' = <<>>
  /\ UNCHANGED <<route, cap, navVars, tblVars, repVars, posVars, custVars, ordTables, ordTablesGets, orders>>

\* PATCH rejected: the catch block
updateOrderStatusFailed(k) ==
  /\ OnOrders
  /\ k \in 1..Len(patches)
  /\ patches' = DropAt(patches, k)
  /\ toast' = <<Error("Failed to update order status")>>
  /\ logged' = <<"Error updating order status:">>
  /\ UNCHANGED <<route, cap, navVars, tblVars, repVars, posVars, custVars, ordTables, ordTablesGets, orders, srvStatus, gets>>

\* the backend reads its orders for a GET /orders in flight
ServeGetOrders(k) ==
  /\ OnOrders
  /\ k \in 1..Len(gets)
  /\ ~gets[k].served
  /\ gets' = [gets EXCEPT ![k] = [served |-> TRUE, data |-> OrdersData]]
  /\ toast' = <<>>
  /\ logged' = <<>>
  /\ UNCHANGED <<route, cap, navVars, tblVars, repVars, posVars, custVars, ordTables, ordTablesGets, orders, srvStatus, patches>>

\* fetchOrders after its await, response 2xx
fetchOrdersOk(k) ==
  /\ OnOrders
  /\ k \in 1..Len(gets)
  /\ gets[k].served
  /\ orders' = gets[k].data
  /\ gets' = DropAt(gets, k)
  /\ toast' = <<>>
  /\ logged' = <<>>
  /\ UNCHANGED <<route, cap, navVars, tblVars, repVars, posVars, custVars, ordTables, ordTablesGets, srvStatus, patches>>

\* fetchOrders after its await, request failed: the catch block
fetchOrdersFailed(k) ==
  /\ OnOrders
  /\ k \in 1..Len(gets)
  /\ gets' = DropAt(gets, k)
  /\ toast' = <<Error("Failed to fetch orders")>>
  /\ logged' = <<"Error fetching orders:">>
  /\ UNCHANGED <<route, cap, navVars, tblVars, repVars, posVars, custVars, ordTables, ordTablesGets, orders, srvStatus, patches>>

\* GET /tables of the order list answered; a failure only logs
OrdersFetchTablesDone(ok) ==
  /\ OnOrders
  /\ ordTablesGets > 0
  /\ ordTablesGets' = ordTablesGets - 1
  /\ ordTables' = IF ok THEN ServerTables ELSE ordTables
  /\ toast' = <<>>
  /\ logged' = IF ok THEN <<>> ELSE <<"Error fetching tables:">>
  /\ UNCHANGED <<route, cap, navVars, tblVars, repVars, posVars, custVars, orders, srvStatus, gets, patches>>

\* the backend cancels an order that is not finished
BackendCancel(o) ==
  /\ OnOrders
  /\ srvStatus[o] \notin {"completed", "cancelled"}
  /\ srvStatus' = [srvStatus EXCEPT ![o] = "cancelled"]
  /\ toast' = <<>>
  /\ logged' = <<>>
  /\ UNCHANGED <<route, cap, navVars, tblVars, repVars, posVars, custVars, ordTables, ordTablesGets, orders, gets, patches>>

\* a status the backend may hold that is none of the six the page names
OtherStatus == "refunded"

\* the backend gives an order such a status
BackendOtherStatus(o) ==
  /\ OnOrders
  /\ srvStatus[o] # OtherStatus
  /\ srvStatus' = [srvStatus EXCEPT ![o] = OtherStatus]
  /\ toast' = <<>>
  /\ logged' = <<>>
  /\ UNCHANGED <<route, cap, navVars, tblVars, repVars, posVars, custVars, ordTables, ordTablesGets, orders, gets, patches>>

\* the state of a freshly mounted order list, GET /orders issued
InitOrders ==
  /\ orders = <<>>
  /\ srvStatus = [o \in OrderIds |-> IF o = 1 THEN "pending" ELSE "served"]
  /\ gets = << [served |-> FALSE, data |-> <<>>] >>
  /\ patches = <<>>
  /\ ordTables = <<>>
  /\ ordTablesGets = 1

(* ---------- tables page ---------- *)
OnTables == route = "tables"

EmptyForm == [table_name |-> "", capacity |-> "", branch_id |-> "main"]

\* the values typed into the capacity input
CapacityInputs == {"", "4"}

\* parseInt of the capacity input
NaN == "NaN"
ParseInt(str) == IF str = "4" THEN 4 ELSE NaN

\* <Dialog open={open} onOpenChange={setOpen}>
TablesSetOpen(b) ==
  /\ OnTables
  /\ tpOpen' = b
  /\ toast' = <<>>
  /\ logged' = <<>>
  /\ UNCHANGED <<route, cap, navVars, posVars, custVars, ordVars, repVars, tpTables, formData,
                 tpPosts, tpDeletes, tpGets, srvTables>>

\* the two inputs of the form in the dialog
TablesSetName(text) ==
  /\ OnTables
  /\ tpOpen
  /\ formData' = [formData EXCEPT !.table_name = text]
  /\ toast' = <<>>
  /\ logged' = <<>>
  /\ UNCHANGED <<route, cap, navVars, posVars, custVars, ordVars, repVars, tpTables, tpOpen,
                 tpPosts, tpDeletes, tpGets, srvTables>>

TablesSetCapacity(text) ==
  /\ OnTables
  /\ tpOpen
  /\ formData' = [formData EXCEPT !.capacity = text]
  /\ toast' = <<>>
  /\ logged' = <<>>
  /\ UNCHANGED <<route, cap, navVars, posVars, custVars, ordVars, repVars, tpTables, tpOpen,
                 tpPosts, tpDeletes, tpGets, srvTables>>

TablesCanSend == Len(tpPosts) + Len(tpDeletes) + tpGets < cap

\* handleSubmit up to its await; both inputs are required by the form
handleSubmit ==
  /\ OnTables
  /\ tpOpen
  /\ formData.table_name # "" /\ formData.capacity # ""
  /\ TablesCanSend
  /\ Len(srvTables) + Len(tpPosts) < MaxTables
  /\ tpPosts' = Append(tpPosts,
                       [formData EXCEPT !.capacity = ParseInt(formData.capacity)])
  /\ toast' = <<>>
  /\ logged' = <<>>
  /\ UNCHANGED <<route, cap, navVars, posVars, custVars, ordVars, repVars, tpTables, tpOpen,
                 formData, tpDeletes, tpGets, srvTables>>

\* the id the backend gives to a new table
NewTableId ==
  CHOOSE i \in 1..(Len(srvTables) + 1) :
    /\ \A k \in 1..Len(srvTables) : srvTables[k].id # i
    /\ \A j \in 1..(i - 1) : \E k \in 1..Len(srvTables) : srvTables[k].id = j

\* POST /tables answered 2xx: the rest of handleSubmit's try block
handleSubmitOk(k) ==
  /\ OnTables
  /\ k \in 1..Len(tpPosts)
  /\ srvTables' = Append(srvTables,
                         [id |-> NewTableId, table_name |-> tpPosts[k].table_name,
                          capacity |-> tpPosts[k].capacity, status |-> "available"])
  /\ tpPosts' = DropAt(tpPosts, k)
  /\ tpOpen' = FALSE
  /\ formData' = EmptyForm
  /\ tpGets' = tpGets + 1
  /\ toast' = <<Success("Table created successfully")>>
  /\ logged' = <<>>
  /\ UNCHANGED <<route, cap, navVars, posVars, custVars, ordVars, repVars, tpTables, tpDeletes>>

\* a catch block that also closes the dialog and clears the form
handleSubmitFailedCloses(k) ==
  /\ OnTables
  /\ k \in 1..Len(tpPosts)
  /\ tpPosts' = DropAt(tpPosts, k)
  /\ tpOpen' = FALSE
  /\ formData' = EmptyForm
  /\ toast' = <<Error("Failed to create table")>>
  /\ logged' = <<"Error creating table:">>
  /\ UNCHANGED <<route, cap, navVars, posVars, custVars, ordVars, repVars, tpTables,
                 tpDeletes, tpGets, srvTables>>

\* POST /tables rejected: the catch block
handleSubmitFailed(k) ==
  /\ OnTables
  /\ k \in 1..Len(tpPosts)
  /\ tpPosts' = DropAt(tpPosts, k)
  /\ toast' = <<Error("Failed to create table")>>
  /\ logged' = <<"Error creating table:">>
  /\ UNCHANGED <<route, cap, navVars, posVars, custVars, ordVars, repVars, tpTables, tpOpen,
                 formData, tpDeletes, tpGets, srvTables>>

\* the delete button of the k-th table card, confirmed: handleDelete up to
\* its await
handleDelete(k) ==
  /\ OnTables
  /\ k \in 1..Len(tpTables)
  /\ TablesCanSend
  /\ tpDeletes' = Append(tpDeletes, tpTables[k].id)
  /\ toast' = <<>>
  /\ logged' = <<>>
  /\ UNCHANGED <<route, cap, navVars, posVars, custVars, ordVars, repVars, tpTables, tpOpen,
                 formData, tpPosts, tpGets, srvTables>>

\* DELETE /tables/{id} answered 2xx: the rest of handleDelete's try block
handleDeleteOk(k) ==
  /\ OnTables
  /\ k \in 1..Len(tpDeletes)
  /\ srvTables' = SelectSeq(srvTables, LAMBDA t : t.id # tpDeletes[k])
  /\ tpDeletes' = DropAt(tpDeletes, k)
  /\ tpGets' = tpGets + 1
  /\ toast' = <<Success("Table deleted successfully")>>
  /\ logged' = <<>>
  /\ UNCHANGED <<route, cap, navVars, posVars, custVars, ordVars, repVars, tpTables, tpOpen,
                 formData, tpPosts>>

\* DELETE rejected: the catch block
handleDeleteFailed(k) ==
  /\ OnTables
  /\ k \in 1..Len(tpDeletes)
  /\ tpDeletes' = DropAt(tpDeletes, k)
  /\ toast' = <<Error("Failed to delete table")>>
  /\ logged' = <<"Error deleting table:">>
  /\ UNCHANGED <<route, cap, navVars, posVars, custVars, ordVars, repVars, tpTables, tpOpen,
                 formData, tpPosts, tpGets, srvTables>>

\* GET /tables of the tables page answered
TablesFetchDone(ok) ==
  /\ OnTables
  /\ tpGets > 0
  /\ tpGets' = tpGets - 1
  /\ tpTables' = IF ok THEN srvTables ELSE tpTables
  /\ toast' = IF ok THEN <<>> ELSE <<Error("Failed to fetch tables")>>
  /\ logged' = IF ok THEN <<>> ELSE <<"Error fetching tables:">>
  /\ UNCHANGED <<route, cap, navVars, posVars, custVars, ordVars, repVars, tpOpen, formData,
                 tpPosts, tpDeletes, srvTables>>

\* the state of a freshly mounted tables page, GET /tables issued
InitTables ==
  /\ tpTables = <<>>
  /\ tpOpen = FALSE
  /\ formData = EmptyForm
  /\ tpPosts = <<>>
  /\ tpDeletes = <<>>
  /\ tpGets = 1
  /\ srvTables = << [id |-> 1, table_name |-> "T1", capacity |-> 4,
                     status |-> "available"] >>

\* the backend changes the status of a table, as when another terminal
\* seats or frees it
BackendSetTableStatus(id, status) ==
  /\ \E k \in 1..Len(srvTables) :
       /\ srvTables[k].id = id
       /\ srvTables[k].status # status
       /\ srvTables' = [srvTables EXCEPT ![k].status = status]
  /\ toast' = <<>>
  /\ logged' = <<>>
  /\ UNCHANGED <<route, cap, navVars, posVars, custVars, ordVars, repVars, tpTables,
                 tpOpen, formData, tpPosts, tpDeletes, tpGets>>

(* ---------- reports page ---------- *)
OnReports == route = "reports"

\* useState(null)
Null == "null"

\* the bodies of the two responses
SalesData == {"sales1", "sales2"}
ItemsData == {"items1", "items2"}

Pending == [state |-> "pending", data |-> Null]
Fulfilled(data) == [state |-> "fulfilled", data |-> data]
Rejected == [state |-> "rejected", data |-> Null]

\* a response arrives; the reports updated as each response arrives, not
\* by the continuation of Promise.all
ReportsStoreEach(sales, items) ==
  /\ salesReq' = sales
  /\ itemsReq' = items
  /\ salesReport' = IF sales.state = "fulfilled" THEN sales.data ELSE salesReport
  /\ itemsReport' = IF items.state = "fulfilled" THEN items.data ELSE itemsReport
  /\ IF settled
     THEN UNCHANGED <<settled, loading>> /\ toast' = <<>> /\ logged' = <<>>
     ELSE IF "rejected" \in {sales.state, items.state}
     THEN /\ settled' = TRUE /\ loading' = FALSE
          /\ toast' = <<Error("Failed to fetch reports")>>
          /\ logged' = <<"Error fetching reports:">>
     ELSE IF sales.state = "fulfilled" /\ items.state = "fulfilled"
     THEN /\ settled' = TRUE /\ loading' = FALSE
          /\ toast' = <<>> /\ logged' = <<>>
     ELSE UNCHANGED <<settled, loading>> /\ toast' = <<>> /\ logged' = <<>>

\* a response arrives, sales and items being the two requests after it:
\* Promise.all rejects at the first rejection and fulfils once both are
\* fulfilled; then the rest of fetchReports runs, once
ReportsSettle(sales, items) ==
  /\ salesReq' = sales
  /\ itemsReq' = items
  /\ IF settled
     THEN /\ UNCHANGED <<salesReport, itemsReport, settled, loading>>
          /\ toast' = <<>> /\ logged' = <<>>
     ELSE IF "rejected" \in {sales.state, items.state}
     THEN /\ UNCHANGED <<salesReport, itemsReport>>
          /\ settled' = TRUE /\ loading' = FALSE
          /\ toast' = <<Error("Failed to fetch reports")>>
          /\ logged' = <<"Error fetching reports:">>
     ELSE IF sales.state = "fulfilled" /\ items.state = "fulfilled"
     THEN /\ salesReport' = sales.data
          /\ itemsReport' = items.data
          /\ settled' = TRUE /\ loading' = FALSE
          /\ toast' = <<>> /\ logged' = <<>>
     ELSE /\ UNCHANGED <<salesReport, itemsReport, settled, loading>>
          /\ toast' = <<>> /\ logged' = <<>>

\* GET /reports/sales answered
SalesResponse(r) ==
  /\ OnReports
  /\ salesReq = Pending
  /\ ReportsSettle(r, itemsReq)
  /\ UNCHANGED <<route, cap, navVars, posVars, custVars, ordVars, tblVars>>

\* GET /reports/items answered
ItemsResponse(r) ==
  /\ OnReports
  /\ itemsReq = Pending
  /\ ReportsSettle(salesReq, r)
  /\ UNCHANGED <<route, cap, navVars, posVars, custVars, ordVars, tblVars>>

\* the state of a freshly mounted reports page, both requests issued
InitReports ==
  /\ salesReport = Null
  /\ itemsReport = Null
  /\ loading = TRUE
  /\ salesReq = Pending
  /\ itemsReq = Pending
  /\ settled = FALSE

(* ---------- routes of the application ---------- *)
OnApp == route = "app"

\* what a route renders: a page component, the loading placeholder, a
\* <Navigate to>, or nothing when no route matches
Page(name) == [kind |-> "page", arg |-> name]
Placeholder == [kind |-> "placeholder", arg |-> "Loading..."]
Navigate(to) == [kind |-> "navigate", arg |-> to]
NoMatch == [kind |-> "none", arg |-> ""]

\* the protected route that renders its children whatever loading is
ProtectedRouteNoLoading(children) ==
  IF isAuthenticated THEN children ELSE Navigate("/login")

ProtectedRoute(children) ==
  IF authLoading THEN Placeholder
  ELSE IF isAuthenticated THEN children ELSE Navigate("/login")

\* the locations a user can open; "/pos" stands for a path no route matches
Paths == {"/login", "/", "/dashboard", "/tables", "/categories", "/menu",
          "/orders", "/discounts", "/order/1", "/pos"}

\* the element of the route that matches location p
AppRoutes(p) ==
  CASE p = "/login" ->
         IF isAuthenticated THEN Navigate("/dashboard") ELSE Page("LoginPage")
    [] p = "/" ->
         IF isAuthenticated THEN Navigate("/dashboard") ELSE Navigate("/login")
    [] p = "/dashboard" -> ProtectedRoute(Page("AdminDashboard"))
    [] p = "/tables" -> ProtectedRoute(Page("TablesPage"))
    [] p = "/categories" -> ProtectedRoute(Page("CategoriesPage"))
    [] p = "/menu" -> ProtectedRoute(Page("MenuPage"))
    [] p = "/orders" -> ProtectedRoute(Page("OrdersPage"))
    [] p = "/discounts" -> ProtectedRoute(Page("DiscountsPage"))
    [] p = "/order/1" -> Page("CustomerOrder")
    [] OTHER -> NoMatch

\* the current location and what is rendered at it
path == history[Len(history)]
Rendered == AppRoutes(path)

\* a new entry of the browser's history, the oldest dropped at the bound
Push(h, p) == IF Len(h) <= MaxHistory THEN Append(h, p) ELSE Append(Tail(h), p)

\* the user opens a location
Visit(p) ==
  /\ OnApp
  /\ p # path
  /\ history' = Push(history, p)
  /\ toast' = <<>>
  /\ logged' = <<>>
  /\ UNCHANGED <<route, cap, isAuthenticated, authLoading, posVars, custVars,
                 ordVars, tblVars, repVars>>

\* the browser's back button
Back ==
  /\ OnApp
  /\ Len(history) > 1
  /\ history' = SubSeq(history, 1, Len(history) - 1)
  /\ toast' = <<>>
  /\ logged' = <<>>
  /\ UNCHANGED <<route, cap, isAuthenticated, authLoading, posVars, custVars,
                 ordVars, tblVars, repVars>>

\* a rendered <Navigate to> takes effect
NavigateEffect ==
  /\ OnApp
  /\ Rendered.kind = "navigate"
  /\ history' = Push(history, Rendered.arg)
  /\ toast' = <<>>
  /\ logged' = <<>>
  /\ UNCHANGED <<route, cap, isAuthenticated, authLoading, posVars, custVars,
                 ordVars, tblVars, repVars>>

\* the auth context changes what useAuth() returns: the session check
\* ends, the user logs in or out
AuthChange(authenticated, busy) ==
  /\ OnApp
  /\ <<authenticated, busy>> # <<isAuthenticated, authLoading>>
  /\ isAuthenticated' = authenticated
  /\ authLoading' = busy
  /\ toast' = <<>>
  /\ logged' = <<>>
  /\ UNCHANGED <<route, cap, history, posVars, custVars, ordVars, tblVars,
                 repVars>>

\* the application opened at "/", the session check under way
InitApp ==
  /\ history = <<"/">>
  /\ isAuthenticated = FALSE
  /\ authLoading = TRUE

NextApp ==
  \/ \E p \in Paths : Visit(p)
  \/ Back
  \/ NavigateEffect
  \/ \E a, l \in BOOLEAN : AuthChange(a, l)

\* the route decides which page component is mounted
Routes == {"pos", "customer", "orders", "tables", "reports", "app"}

\* a page of rs freshly mounted, at most n requests in flight at once
InitWith(rs, n) ==
  route \in rs /\ cap = n
  /\ InitPOS /\ InitCustomer /\ InitOrders
  /\ InitTables /\ InitReports /\ InitApp
  /\ toast = <<>> /\ logged = <<>>

InitOn(rs) == InitWith(rs, MaxInflight)

Init == InitOn(Routes)

\* cart handlers of the POS screen
PosAddOps(data) ==
  \/ \E k \in 1..Len(Menu) : addToCart(Menu[k])
  \/ \E ok \in BOOLEAN : fetchMenuItemsDone(ok, data)

PosCartOps ==
  \/ PosAddOps(Menu)
  \/ \E i \in ItemIds, d \in {-1, 1} : updateQuantity(i, d)
  \/ \E i \in ItemIds : removeFromCart(i)
  \/ \E t \in OrderTypes : setOrderType(t)
  \/ resetOrder

PosNoteOps ==
  \/ \E i \in ItemIds : openNoteDialog(i)
  \/ \E x \in Texts : setItemNote(x)
  \/ cancelNote
  \/ saveNote

PosDiscountOps ==
  \/ \E kind \in {"percentage", "fixed"} : setDiscountType(kind)
  \/ \E v \in PercentInputs : setDiscount(v)
  \/ \E v \in AmountInputs : setDiscountAmount(v)

PosCustomerOps ==
  \/ \E x \in Texts : setCustomerName(x)
  \/ \E x \in Texts : setCustomerPhone(x)

PosSubmitOps ==
  \/ \E k \in 1..Len(tables) : setSelectedTable(tables[k])
  \/ handlePlaceOrder
  \/ handlePayment
  \/ processPayment
  \/ \E k \in 1..cap : PlaceOrderOk(k)
  \/ \E k \in 1..cap : PlaceOrderFailed(k)
  \/ \E ok \in BOOLEAN : fetchTablesDone(ok)

NextPOS ==
  Tick \/
  PosCartOps \/ PosNoteOps \/ PosDiscountOps \/ PosCustomerOps \/ PosSubmitOps

CustomerCartOps ==
  \/ \E k \in 1..Len(Menu) : CustomerAddToCart(Menu[k])
  \/ \E i \in ItemIds, d \in {-1, 1} : CustomerUpdateQuantity(i, d)
  \/ \E i \in ItemIds : CustomerRemoveFromCart(i)
  \/ placeOrder
  \/ \E k \in 1..cap : placeOrderOk(k)
  \/ \E k \in 1..cap : placeOrderFailed(k)
  \/ \E ok \in BOOLEAN : CustomerFetchMenuItemsDone(ok)

NextCustomer ==
  \/ CustomerCartOps
  \/ \E x \in Texts : CustomerSetName(x)
  \/ \E x \in Texts : CustomerSetPhone(x)

NextOrders ==
  \/ \E k \in 1..Len(statusFlow) + 1 : updateOrderStatus(k)
  \/ \E k \in 1..cap : updateOrderStatusOk(k)
  \/ \E k \in 1..cap : updateOrderStatusFailed(k)
  \/ \E k \in 1..cap : ServeGetOrders(k)
  \/ \E k \in 1..cap : fetchOrdersOk(k)
  \/ \E k \in 1..cap : fetchOrdersFailed(k)
  \/ \E o \in OrderIds : BackendCancel(o)
  \/ \E ok \in BOOLEAN : OrdersFetchTablesDone(ok)

NextTables ==
  \/ \E b \in BOOLEAN : TablesSetOpen(b)
  \/ \E x \in Texts : TablesSetName(x)
  \/ \E x \in CapacityInputs : TablesSetCapacity(x)
  \/ handleSubmit
  \/ \E k \in 1..cap : handleSubmitOk(k)
  \/ \E k \in 1..cap : handleSubmitFailed(k)
  \/ \E k \in 1..MaxTables : handleDelete(k)
  \/ \E k \in 1..cap : handleDeleteOk(k)
  \/ \E k \in 1..cap : handleDeleteFailed(k)
  \/ \E ok \in BOOLEAN : TablesFetchDone(ok)

NextReports ==
  \/ \E d \in SalesData : SalesResponse(Fulfilled(d))
  \/ SalesResponse(Rejected)
  \/ \E d \in ItemsData : ItemsResponse(Fulfilled(d))
  \/ ItemsResponse(Rejected)

\* every handler of the five pages
Next ==
  NextPOS \/ NextCustomer \/ NextOrders \/ NextTables \/ NextReports \/ NextApp

Spec == Init /\ [][Next]_vars

(***************************************************************************)
(* The product of all inputs is far too large to enumerate, so the         *)
(* properties are checked on slices of Next: each slice is the whole page  *)
(* with some of its controls left untouched.                               *)
(***************************************************************************)
\* the carts of both ordering screens: lines, quantities, notes, channels
NextCart == PosCartOps \/ PosNoteOps \/ CustomerCartOps
SpecCart == InitOn({"pos", "customer"}) /\ [][NextCart]_vars

\* the POS cart and its discount controls
NextBill == PosCartOps \/ PosDiscountOps
SpecBill == InitOn({"pos"}) /\ [][NextBill]_vars

\* submission of a POS cart of the first menu item under a fixed discount
NextSubmit ==
  \/ PosAddOps(SubSeq(Menu, 1, 1))
  \/ \E t \in {"dine_in", "takeaway"} : setOrderType(t)
  \/ \E kind \in {"percentage", "fixed"} : setDiscountType(kind)
  \/ setDiscount(10)
  \/ \E v \in AmountInputs : setDiscountAmount(v)
  \/ PosSubmitOps
SpecSubmit == InitOn({"pos"}) /\ [][NextSubmit]_vars

\* the explicit clear of a POS order of the first menu item, with the clock
NextReset ==
  \/ Tick
  \/ PosAddOps(SubSeq(Menu, 1, 1))
  \/ \E t \in {"dine_in", "takeaway"} : setOrderType(t)
  \/ PosCustomerOps
  \/ PosDiscountOps
  \/ resetOrder
SpecReset == InitOn({"pos"}) /\ [][NextReset]_vars

\* submission, reset and line removal on both ordering screens
NextClear ==
  \/ PosAddOps(SubSeq(Menu, 1, 1))
  \/ \E t \in {"dine_in", "takeaway"} : setOrderType(t)
  \/ setDiscountType("fixed")
  \/ setDiscountAmount(1500)
  \/ \E k \in 1..Len(tables) : setSelectedTable(tables[k])
  \/ \E ok \in BOOLEAN : fetchTablesDone(ok)
  \/ handlePlaceOrder
  \/ \E k \in 1..cap : PlaceOrderOk(k)
  \/ \E k \in 1..cap : PlaceOrderFailed(k)
  \/ \E i \in ItemIds : removeFromCart(i)
  \/ resetOrder
  \/ setCustomerName("x")
  \/ CustomerAddToCart(Menu[1])
  \/ \E d \in {-1, 1} : CustomerUpdateQuantity(Menu[1].id, d)
  \/ \E i \in ItemIds : CustomerRemoveFromCart(i)
  \/ placeOrder
  \/ \E k \in 1..cap : placeOrderOk(k)
  \/ \E k \in 1..cap : placeOrderFailed(k)
  \/ \E ok \in BOOLEAN : CustomerFetchMenuItemsDone(ok)
  \/ CustomerSetName("x")
SpecClear == InitOn({"pos", "customer"}) /\ [][NextClear]_vars

\* the back-office pages: tables, reports and the order list
NextBackOffice == NextTables \/ NextReports \/ NextOrders
SpecBackOffice ==
  InitOn({"tables", "reports", "orders"}) /\ [][NextBackOffice]_vars

\* the calls that can fail after a user action: order submission, table
\* creation and deletion, status update
NextFail == NextSubmit \/ NextTables \/ NextOrders
SpecFail == InitOn({"pos", "tables", "orders"}) /\ [][NextFail]_vars

\* the order list and the POS table selection while the backend changes
\* order and table statuses behind the pages' snapshots
NextStale ==
  \/ NextOrders
  \/ PosAddOps(SubSeq(Menu, 1, 1))
  \/ \E k \in 1..Len(tables) : setSelectedTable(tables[k])
  \/ \E ok \in BOOLEAN : fetchTablesDone(ok)
  \/ handlePlaceOrder
  \/ \E k \in 1..cap : PlaceOrderOk(k)
  \/ \E k \in 1..cap : PlaceOrderFailed(k)
  \/ \E k \in 1..Len(srvTables), st \in TableStatuses :
       BackendSetTableStatus(srvTables[k].id, st)
SpecStale == InitOn({"orders", "pos"}) /\ [][NextStale]_vars

\* every handler that writes a cart: the POS screen with the first menu
\* item on a takeaway order, the customer screen with the whole menu
NextLines ==
  \/ PosAddOps(SubSeq(Menu, 1, 1))
  \/ \E d \in {-1, 1} : updateQuantity(Menu[1].id, d)
  \/ \E i \in ItemIds : removeFromCart(i)
  \/ setOrderType("takeaway")
  \/ resetOrder
  \/ openNoteDialog(Menu[1].id)
  \/ setItemNote("x")
  \/ saveNote
  \/ handlePlaceOrder
  \/ \E k \in 1..cap : PlaceOrderOk(k)
  \/ \E k \in 1..cap : PlaceOrderFailed(k)
  \/ \E ok \in BOOLEAN : fetchTablesDone(ok)
  \/ CustomerCartOps
SpecLines == InitOn({"pos", "customer"}) /\ [][NextLines]_vars

\* the three pages that send requests on a click, with room for one more
\* request in flight than the other slices give: a second click while the
\* first request is unanswered
NextOverlap ==
  \/ PosAddOps(SubSeq(Menu, 1, 1))
  \/ setOrderType("takeaway")
  \/ handlePlaceOrder
  \/ handlePayment
  \/ processPayment
  \/ \E k \in 1..cap : PlaceOrderOk(k)
  \/ \E k \in 1..cap : PlaceOrderFailed(k)
  \/ \E ok \in BOOLEAN : fetchTablesDone(ok)
  \/ CustomerAddToCart(Menu[1])
  \/ placeOrder
  \/ \E k \in 1..cap : placeOrderOk(k)
  \/ \E k \in 1..cap : placeOrderFailed(k)
  \/ \E ok \in BOOLEAN : CustomerFetchMenuItemsDone(ok)
  \/ NextOrders
SpecOverlap ==
  InitWith({"pos", "customer", "orders"}, MaxInflight + 1) /\ [][NextOverlap]_vars

\* the order list with two requests in flight, every request answered 2xx
\* or, for a status update, rejected, and no change of the backend's orders
\* other than the page's own updates: the backend's statuses change only in
\* the step that issues a GET /orders, so the response to the most recently
\* issued GET /orders is the backend's final state
NextRace ==
  \/ \E k \in 1..Len(statusFlow) + 1 : updateOrderStatus(k)
  \/ \E k \in 1..cap : updateOrderStatusOk(k)
  \/ \E k \in 1..cap : updateOrderStatusFailed(k)
  \/ \E k \in 1..cap : ServeGetOrders(k)
  \/ \E k \in 1..cap : fetchOrdersOk(k)
SpecRace == InitWith({"orders"}, MaxInflight + 1) /\ [][NextRace]_vars

\* the order list over a backend that also holds statuses unknown to it
NextUnknown ==
  \/ NextOrders
  \/ \E o \in OrderIds : BackendOtherStatus(o)
SpecUnknown == InitOn({"orders"}) /\ [][NextUnknown]_vars

\* the POS variant whose only discount is a percentage: the cart and the
\* percentage input, the kind of discount never leaving "percentage"
NextPercent ==
  \/ PosAddOps(Menu)
  \/ \E i \in ItemIds, d \in {-1, 1} : updateQuantity(i, d)
  \/ \E i \in ItemIds : removeFromCart(i)
  \/ \E t \in OrderTypes : setOrderType(t)
  \/ \E v \in PercentInputs : setDiscount(v)
SpecPercent == InitOn({"pos"}) /\ [][NextPercent]_vars

\* the routes of the application under every change of the session
SpecApp == InitOn({"app"}) /\ [][NextApp]_vars

\* the order list page and the backend's order statuses
SpecOrders == InitOn({"orders"}) /\ [][NextOrders]_vars

(***************************************************************************)
(* Properties                                                              *)
(***************************************************************************)
HasLine(c, itemId) == \E k \in 1..Len(c) : c[k].item_id = itemId
LineOf(c, itemId) == c[CHOOSE k \in 1..Len(c) : c[k].item_id = itemId]
MenuItem(itemId) == Menu[CHOOSE k \in 1..Len(Menu) : Menu[k].id = itemId]

\* c2 is c with the quantity of the lines of itemId set by NewQty, nothing
\* else changed
SameButQuantity(c, c2, itemId, NewQty(_)) ==
  /\ Len(c2) = Len(c)
  /\ \A k \in 1..Len(c) :
       /\ c2[k].item_id = c[k].item_id
       /\ c2[k].item_name = c[k].item_name
       /\ c2[k].price = c[k].price
       /\ c2[k].tax = c[k].tax
       /\ c2[k].quantity =
            IF c[k].item_id = itemId THEN NewQty(c[k].quantity) ELSE c[k].quantity

SameNotes(c, c2) ==
  /\ Len(c2) = Len(c)
  /\ \A k \in 1..Len(c) : c2[k].notes = c[k].notes

\* c2 is c without the lines of itemId, the other lines as they were and in
\* the order they were
RemovedExactly(c, c2, itemId) ==
  LET kept == {k \in 1..Len(c) : c[k].item_id # itemId}
  IN /\ Len(c2) = Cardinality(kept)
     /\ \A k \in kept : c2[Cardinality({j \in kept : j <= k})] = c[k]

\* C1: addToCart(item) on a POS cart holding a line of the item adds 1 to
\* that line's quantity and changes nothing else; on a cart without one it
\* appends one line of quantity 1 with the price shown for the selected
\* channel, the item's tax (0 when it has none) and an empty note, and
\* leaves the lines before it as they were.
C1_AddToCart ==
  [][\A n \in 1..Len(Menu) :
       addToCart(Menu[n]) =>
         LET item == Menu[n]
             PlusOne(q) == q + 1
         IN IF HasLine(cart, item.id)
            THEN /\ SameButQuantity(cart, cart', item.id, PlusOne)
                 /\ SameNotes(cart, cart')
            ELSE /\ Len(cart') = Len(cart) + 1
                 /\ SubSeq(cart', 1, Len(cart)) = cart
                 /\ cart'[Len(cart')].item_id = item.id
                 /\ cart'[Len(cart')].quantity = 1
                 /\ cart'[Len(cart')].price = MenuCardPrice(item, orderType)
                 /\ cart'[Len(cart')].tax =
                      (IF item.tax = <<>> THEN 0 ELSE item.tax[1])
                 /\ cart'[Len(cart')].notes = ""]_vars

\* a line of quantity 2 followed by a line appended under another channel
C1_Witness ==
  /\ route = "pos"
  /\ Len(cart) = 2
  /\ cart[1].item_id = 2 /\ cart[1].quantity = 2
  /\ cart[2].item_id = 1 /\ cart[2].quantity = 1 /\ cart[2].price = 4500
  /\ cart[2].tax = 400 /\ cart[2].notes = ""

\* C2: updateQuantity(itemId, delta) of the POS screen sets the quantity of
\* the matching line to max(1, quantity + delta) and leaves the other lines
\* alone; after every step every line of the POS cart has quantity >= 1.
C2_UpdateQuantityFloor ==
  [][/\ \A k \in 1..Len(cart') : cart'[k].quantity >= 1
     /\ \A i \in ItemIds, d \in {-1, 1} :
          updateQuantity(i, d) =>
            LET Floored(q) == IF q + d < 1 THEN 1 ELSE q + d
            IN /\ SameButQuantity(cart, cart', i, Floored)
               /\ SameNotes(cart, cart')]_vars

\* a line of quantity 1, which the minus button leaves at 1, beside a line
\* of quantity 2
C2_Witness ==
  /\ route = "pos"
  /\ Len(cart) = 2
  /\ cart[1].quantity = 1
  /\ cart[2].quantity = 2

\* C3: updateQuantity(itemId, delta) of the customer screen adds delta to
\* the matching line's quantity and deletes the line when the result is 0 or
\* less; no line of quantity <= 0 is ever in the cart and the other lines
\* are unchanged.
C3_CustomerUpdateQuantity ==
  [][/\ \A k \in 1..Len(custCart') : custCart'[k].quantity > 0
     /\ \A i \in ItemIds, d \in {-1, 1} :
          CustomerUpdateQuantity(i, d) =>
            LET Moved(q) == q + d
            IN IF LineOf(custCart, i).quantity + d <= 0
               THEN RemovedExactly(custCart, custCart', i)
               ELSE SameButQuantity(custCart, custCart', i, Moved)]_vars

\* the second line left alone at the head of the cart
C3_Witness ==
  /\ route = "customer"
  /\ Len(custCart) = 1
  /\ custCart[1].item_id = 2
  /\ custCart[1].quantity = 2
  /\ custPosts # <<>>
  /\ Len(custPosts[1].items) = 2

\* C4: removeFromCart(itemId) deletes the line of that item id, whatever
\* its quantity, and leaves every other line and the order of the lines
\* unchanged; for an item id that has no line the cart is unchanged.
C4_RemoveFromCart ==
  [][\A i \in ItemIds :
       /\ removeFromCart(i) =>
            /\ RemovedExactly(cart, cart', i)
            /\ (~HasLine(cart, i) => cart' = cart)
       /\ CustomerRemoveFromCart(i) =>
            /\ RemovedExactly(custCart, custCart', i)
            /\ (~HasLine(custCart, i) => custCart' = custCart)]_vars

\* the first item's line is gone (its note dialog had been opened) and the
\* second item's line still carries its note and its quantity
C4_Witness ==
  /\ route = "pos"
  /\ Len(cart) = 1
  /\ cart[1].item_id = 2 /\ cart[1].quantity = 2 /\ cart[1].notes = "x"
  /\ selectedItemForNote = 1

\* C5: the subtotal is the sum over the cart lines of captured price times
\* quantity: it is 0 for an empty cart, grows by the price shown on the menu
\* card when a line is created, moves by the line's captured price times the
\* change of its quantity afterwards, drops by price times quantity when a
\* line is removed, and is not changed by a change of channel.
C5_Subtotal ==
  [][/\ (cart' = <<>> => Totals'.subtotal = 0)
     /\ (custCart' = <<>> => cartTotal(custCart') = 0)
     /\ \A n \in 1..Len(Menu) :
          /\ addToCart(Menu[n]) =>
               Totals'.subtotal = Totals.subtotal +
                 (IF HasLine(cart, Menu[n].id)
                  THEN LineOf(cart, Menu[n].id).price
                  ELSE MenuCardPrice(Menu[n], orderType))
          /\ CustomerAddToCart(Menu[n]) =>
               cartTotal(custCart') = cartTotal(custCart) + Menu[n].price
     /\ \A i \in ItemIds, d \in {-1, 1} :
          /\ updateQuantity(i, d) =>
               Totals'.subtotal = Totals.subtotal + LineOf(cart, i).price *
                 (LineOf(cart', i).quantity - LineOf(cart, i).quantity)
          /\ CustomerUpdateQuantity(i, d) =>
               cartTotal(custCart') = cartTotal(custCart) + d * MenuItem(i).price
     /\ \A i \in ItemIds :
          /\ removeFromCart(i) =>
               Totals'.subtotal = Totals.subtotal -
                 (IF HasLine(cart, i)
                  THEN LineOf(cart, i).price * LineOf(cart, i).quantity ELSE 0)
          /\ CustomerRemoveFromCart(i) =>
               cartTotal(custCart') = cartTotal(custCart) -
                 (IF HasLine(custCart, i)
                  THEN MenuItem(i).price * LineOf(custCart, i).quantity ELSE 0)
     /\ \A t \in OrderTypes :
          setOrderType(t) => Totals'.subtotal = Totals.subtotal]_vars

\* the item of price 10.00 added twice: one line of quantity 2, subtotal 20.00
C5_Witness ==
  /\ route = "pos"
  /\ Len(cart) = 1
  /\ cart[1].price = 1000 /\ cart[1].quantity = 2
  /\ Totals.subtotal = 2000

\* the flat tax of a menu item, 0 when it has none
TaxOfItem(itemId) ==
  IF MenuItem(itemId).tax = <<>> THEN 0 ELSE MenuItem(itemId).tax[1]

RECURSIVE FlatTax(_, _)
\* the flat per-unit tax of the first n lines of c, times their quantities
FlatTax(c, n) ==
  IF n = 0 THEN 0
  ELSE c[n].quantity * TaxOfItem(c[n].item_id) + FlatTax(c, n - 1)

\* C6: the grand total is subtotal + tax total - discount amount, the tax
\* total being the flat tax of each line's item times the line's quantity;
\* with subtotal 100.00 and tax 8.00, 10% gives discount 10.00 and total
\* 98.00, and a fixed 15.00 gives total 93.00.
C6_GrandTotal ==
  /\ Totals.tax = FlatTax(cart, Len(cart))
  /\ Totals.total = Totals.subtotal + FlatTax(cart, Len(cart)) - Totals.discountAmt
  /\ (Totals.subtotal = 10000 /\ Totals.tax = 800 =>
        /\ (discountType = "percentage" /\ discount = 10 =>
              Totals.discountAmt = 1000 /\ Totals.total = 9800)
        /\ (discountType = "fixed" /\ discountAmount = 1500 =>
              Totals.total = 9300))

\* subtotal 100.00, tax 8.00, 10%: total 98.00
C6_Witness ==
  /\ Totals.subtotal = 10000 /\ Totals.tax = 800
  /\ discountType = "percentage" /\ discount = 10
  /\ Totals.total = 9800

\* C7: the discount amount follows the kind alone: subtotal * percentage /
\* 100 for a percentage, whatever the stored amount; the stored amount for a
\* fixed discount, whatever the subtotal and the stored percentage; 0 in the
\* initial state and after resetOrder.
C7_DiscountByKind ==
  /\ (InitPOS => Totals.discountAmt = 0)
  /\ [][/\ (discountType' = "percentage" =>
              Totals'.discountAmt * 100 = Totals'.subtotal * discount')
        /\ (discountType' = "fixed" => Totals'.discountAmt = discountAmount')
        /\ (resetOrder => Totals'.discountAmt = 0)]_vars

\* a percentage discount applied while a fixed amount is stored
C7_Witness ==
  /\ discountType = "percentage" /\ discount = 10 /\ discountAmount = 1500
  /\ Totals.subtotal = 5000 /\ Totals.discountAmt = 500

\* C8: the grand total has no lower bound and does not stop a submission:
\* whenever the cart is not empty and, for dine-in, a table is selected,
\* Save and the payment buttons issue POST /orders with the cart, also when
\* the grand total is negative.
C8_NegativeTotalSubmits ==
  [][(handlePlaceOrder \/ processPayment)
       /\ cart # <<>>
       /\ ~(orderType = "dine_in" /\ selectedTable = NoTable)
     => /\ Len(posts') = Len(posts) + 1
        /\ posts'[Len(posts')].payload.items = cart]_vars

\* a negative grand total under a fixed discount, and the cart on its way to
\* the backend from a payment button
C8_Witness ==
  /\ cart # <<>>
  /\ discountType = "fixed"
  /\ discountAmount > Totals.subtotal + Totals.tax
  /\ Totals.total < 0
  /\ posts # <<>>
  /\ posts[1].payment
  /\ posts[1].payload.items = cart

\* C9: the stored percentage lies in [0, 100] and the stored fixed amount is
\* >= 0, whatever number is typed.
C9_DiscountRange ==
  /\ 0 <= discount /\ discount <= 100
  /\ discountAmount >= 0

\* 100 is stored only by typing more than 100
C9_Witness == discount = 100 /\ 100 \notin PercentInputs

\* C10, as the code computes it: for a displayed order, nextStatus is the status after
\* the order's in pending, preparing, ready, served, completed, and none for
\* completed; for cancelled it is pending (indexOf gives -1), and the advance
\* button is hidden for completed and for cancelled by its own status test.
C10_NextStatus ==
  \A k \in 1..Len(orders) :
    LET s == orders[k].order_status
    IN /\ (s = "pending" => nextStatus(s) = "preparing")
       /\ (s = "preparing" => nextStatus(s) = "ready")
       /\ (s = "ready" => nextStatus(s) = "served")
       /\ (s = "served" => nextStatus(s) = "completed")
       /\ (s = "completed" => nextStatus(s) = Undefined)
       /\ (s = "cancelled" => nextStatus(s) = "pending")
       /\ (s \in {"completed", "cancelled"} => ~AdvanceShown(orders[k]))

\* C10 as claimed: nextStatus is none for completed and for cancelled
C10_NextStatusNoneWhenCancelled ==
  \A k \in 1..Len(orders) :
    LET s == orders[k].order_status
    IN /\ (s = "pending" => nextStatus(s) = "preparing")
       /\ (s = "preparing" => nextStatus(s) = "ready")
       /\ (s = "ready" => nextStatus(s) = "served")
       /\ (s = "served" => nextStatus(s) = "completed")
       /\ (s \in {"completed", "cancelled"} => nextStatus(s) = Undefined)

\* a cancelled order and a completed order on display
C10_Witness ==
  /\ route = "orders"
  /\ \E k \in 1..Len(orders) : orders[k].order_status = "cancelled"
  /\ \E k \in 1..Len(orders) : orders[k].order_status = "completed"

\* the requests issued by the step, for a queue that only grows at its end
Issued(q, q2) == IF Len(q2) > Len(q) THEN SubSeq(q2, Len(q) + 1, Len(q2)) ELSE <<>>

\* the displayed orders a request of the order list can be for
IsFor(patch, order) == patch.id = order.id

\* C11: an order card offers at most one action, the advance to nextStatus,
\* and none once the order is completed or cancelled: no click is possible
\* on such a card, and a step of the page issues at most one status update,
\* which is for a displayed order that is neither completed nor cancelled.
C11_OneActionPerOrder ==
  /\ [](\A k \in 1..Len(orders) :
          orders[k].order_status \in {"completed", "cancelled"}
            => ~ENABLED updateOrderStatus(k))
  /\ [][/\ Len(Issued(patches, patches')) <= 1
        /\ \A n \in 1..Len(Issued(patches, patches')) :
             \E k \in 1..Len(orders) :
               /\ IsFor(Issued(patches, patches')[n], orders[k])
               /\ orders[k].order_status \notin {"completed", "cancelled"}
               /\ updateOrderStatus(k)]_vars

\* a cancelled order is on display while the advance of another order has
\* been requested
C11_Witness ==
  /\ route = "orders"
  /\ \E k \in 1..Len(orders) : orders[k].order_status = "cancelled"
  /\ \E k \in 1..Len(orders) : ~AdvanceShown(orders[k])
  /\ patches # <<>>

\* the steps of the sequence pending, preparing, ready, served, completed
OneStepAhead ==
  { <<"pending", "preparing">>, <<"preparing", "ready">>,
    <<"ready", "served">>, <<"served", "completed">> }

\* C12: every status update the order list issues is for a displayed order
\* and asks for the status one step after the status displayed for that
\* order: never an earlier status, never one more than one step ahead.
C12_NoGoBackNoSkip ==
  [][\A n \in 1..Len(Issued(patches, patches')) :
       \E k \in 1..Len(orders) :
         /\ IsFor(Issued(patches, patches')[n], orders[k])
         /\ <<orders[k].order_status,
              Issued(patches, patches')[n].order_status>> \in OneStepAhead]_vars

\* the advance of a served order to completed has been requested
C12_Witness ==
  /\ route = "orders"
  /\ \E n \in 1..Len(patches) : patches[n].order_status = "completed"

\* C13: the displayed list changes only by a GET /orders response replacing
\* it whole; a successful PATCH issues one new GET /orders and leaves the
\* list to that response; a failed PATCH leaves the list and issues no GET.
C13_StatusOnlyFromBackend ==
  [][/\ orders' # orders =>
          \E k \in 1..Len(gets) : fetchOrdersOk(k) /\ orders' = gets[k].data
     /\ \A k \in 1..Len(patches) :
          updateOrderStatusOk(k) =>
            /\ orders' = orders
            /\ gets' = Append(gets, [served |-> FALSE, data |-> <<>>])
     /\ \A k \in 1..Len(patches) :
          updateOrderStatusFailed(k) => orders' = orders /\ gets' = gets]_vars

\* a PATCH has succeeded and its re-fetch is in flight while the list still
\* shows the status from before
C13_Witness ==
  /\ route = "orders"
  /\ toast = <<Success("Order status updated")>>
  /\ \E n \in 1..Len(gets) : ~gets[n].served
  /\ \E k \in 1..Len(orders) : orders[k].order_status # srvStatus[orders[k].id]

\* C14: resetOrder empties the cart and resets customer name and phone, the
\* discount percentage and amount and the order start time; right after it
\* the line list is empty and subtotal, tax and discount amount are 0.
C14_ResetOrder ==
  [][resetOrder =>
       /\ cart' = <<>>
       /\ customerName' = "" /\ customerPhone' = ""
       /\ discount' = 0 /\ discountAmount' = 0
       /\ orderTime' = now /\ elapsedTime' = 0
       /\ Totals'.subtotal = 0 /\ Totals'.tax = 0 /\ Totals'.discountAmt = 0]_vars

\* an order with a fixed discount was cleared after the clock had advanced
C14_Witness ==
  /\ route = "pos"
  /\ cart = <<>> /\ discountType = "fixed" /\ discountAmount = 0
  /\ orderTime > 0 /\ elapsedTime = 0

\* C15: a successful POST /orders leaves an empty cart and empty customer
\* name and phone (on the POS screen also no selected table and a zero
\* discount); a cart that held lines becomes empty only by a successful
\* submission, an explicit reset or the removal of its lines.
C15_ClearedOnSuccess ==
  [][/\ \A k \in 1..Len(posts) :
          PlaceOrderOk(k) =>
            /\ cart' = <<>> /\ customerName' = "" /\ customerPhone' = ""
            /\ selectedTable' = NoTable
            /\ discount' = 0 /\ discountAmount' = 0
     /\ \A k \in 1..Len(custPosts) :
          placeOrderOk(k) =>
            custCart' = <<>> /\ custName' = "" /\ custPhone' = ""
     /\ (cart # <<>> /\ cart' = <<>>) =>
          \/ \E k \in 1..Len(posts) : PlaceOrderOk(k)
          \/ resetOrder
          \/ \E i \in ItemIds : removeFromCart(i)
     /\ (custCart # <<>> /\ custCart' = <<>>) =>
          \/ \E k \in 1..Len(custPosts) : placeOrderOk(k)
          \/ \E i \in ItemIds : CustomerRemoveFromCart(i)
          \/ \E i \in ItemIds : CustomerUpdateQuantity(i, -1)]_vars

\* an order has just been placed from a screen whose cart is now empty
C15_Witness ==
  /\ toast # <<>> /\ toast[1] = Success("Order placed successfully!")
  /\ \/ route = "pos" /\ cart = <<>> /\ discountType = "fixed"
     \/ route = "customer" /\ custCart = <<>>

\* C16: the price and tax of a line are those captured when it was created:
\* no step changes them on a line that stays in the cart, whether it
\* switches the channel or adds the item again under another channel, and
\* an order is submitted with these lines under the channel selected at
\* the submission.
C16_PriceCapturedOnce ==
  [][/\ \A i \in ItemIds :
          HasLine(cart, i) /\ HasLine(cart', i) =>
            /\ LineOf(cart', i).price = LineOf(cart, i).price
            /\ LineOf(cart', i).tax = LineOf(cart, i).tax
     /\ \A n \in 1..Len(Menu) :
          addToCart(Menu[n]) /\ HasLine(cart, Menu[n].id) =>
            LineOf(cart', Menu[n].id).quantity =
              LineOf(cart, Menu[n].id).quantity + 1
     /\ \A n \in 1..Len(Issued(posts, posts')) :
          /\ Issued(posts, posts')[n].payload.order_type = orderType
          /\ Issued(posts, posts')[n].payload.items = cart]_vars

\* a dine-in order in flight whose line was created under takeaway, at the
\* takeaway price, and added to again under dine-in
C16_Witness ==
  /\ route = "pos"
  /\ \E n \in 1..Len(posts) :
       /\ posts[n].payload.order_type = "dine_in"
       /\ posts[n].payload.items[1].item_id = Menu[1].id
       /\ posts[n].payload.items[1].price = Menu[1].pricing.takeaway
       /\ posts[n].payload.items[1].price # Menu[1].pricing.dine_in
       /\ posts[n].payload.items[1].quantity = 2

\* C17: the discount only affects the totals on display: the discount
\* controls change no cart line, and a POST /orders payload consists of
\* table id, order type, the cart lines as they are, customer name and
\* phone, with no discount kind, value or discounted total in it.
C17_DiscountIsLocal ==
  [][/\ ( \/ \E kind \in {"percentage", "fixed"} : setDiscountType(kind)
          \/ \E v \in PercentInputs : setDiscount(v)
          \/ \E v \in AmountInputs : setDiscountAmount(v) )
          => cart' = cart /\ posts' = posts
     /\ \A n \in 1..Len(Issued(posts, posts')) :
          LET payload == Issued(posts, posts')[n].payload
          IN /\ DOMAIN payload = {"table_id", "order_type", "items",
                                  "customer_name", "customer_phone"}
             /\ payload.items = cart
             /\ \A k \in 1..Len(payload.items) :
                  /\ DOMAIN payload.items[k] =
                       {"item_id", "item_name", "quantity", "price", "tax", "notes"}
                  /\ \E t \in OrderTypes :
                       payload.items[k].price =
                         MenuCardPrice(MenuItem(payload.items[k].item_id), t)]_vars

\* an order in flight that was sent while a discount of 10 % of the
\* subtotal, or a fixed one, was on display
C17_Witness ==
  /\ route = "pos"
  /\ posts # <<>> /\ cart = posts[1].payload.items
  /\ Totals.discountAmt > 0
  /\ Totals.total < Totals.subtotal + Totals.tax

\* the requests in flight, over all pages
InFlight ==
  Len(posts) + tablesGets + menuGets + Len(custPosts) + custMenuGets
    + Len(gets) + Len(patches) + ordTablesGets

\* C18: every failed network call, the initial list fetches included, is
\* caught (its catch block logs it), shows a notification to the user, and
\* is not retried: the step that handles the failure issues no request.
C18_FailureNotified ==
  [][logged' # <<>> =>
       /\ \E n \in 1..Len(toast') : toast'[n].kind = "error"
       /\ InFlight' = InFlight - 1]_vars

\* C19: a failed call leaves the page's state as it was: after a failed
\* POST /orders the cart, the customer fields, the selected table and the
\* discount are unchanged; after a failed table creation, table deletion or
\* status update the displayed list, the dialog and the form are unchanged;
\* and no failure handler issues a re-fetch.
C19_FailureLeavesState ==
  [][/\ \A k \in 1..Len(posts) :
          PlaceOrderFailed(k) =>
            UNCHANGED <<cart, customerName, customerPhone, selectedTable,
                        discount, discountAmount, discountType, orderType,
                        noteDialogOpen, tables, tablesGets>>
     /\ \A k \in 1..Len(custPosts) :
          placeOrderFailed(k) => UNCHANGED <<custCart, custName, custPhone>>
     /\ \A k \in 1..Len(tpPosts) :
          handleSubmitFailed(k) => UNCHANGED <<tpTables, tpOpen, formData, tpGets>>
     /\ \A k \in 1..Len(tpDeletes) :
          handleDeleteFailed(k) => UNCHANGED <<tpTables, tpOpen, formData, tpGets>>
     /\ \A k \in 1..Len(patches) :
          updateOrderStatusFailed(k) => UNCHANGED <<orders, gets>>]_vars

\* a table creation has just failed: the dialog is still open with the form
\* as typed
C19_Witness ==
  /\ route = "tables"
  /\ logged = <<"Error creating table:">>
  /\ tpOpen
  /\ formData.table_name # "" /\ formData.capacity # ""
  /\ tpGets = 0

\* C20: the reports page stores both reports or neither: the two reports
\* are set together, and when either of the two parallel requests has
\* failed no report is updated (both stay null, their value since mount),
\* even when the other request succeeded.
C20_BothOrNeither ==
  /\ []((salesReport = Null) = (itemsReport = Null))
  /\ []("rejected" \in {salesReq.state, itemsReq.state} =>
          salesReport = Null /\ itemsReport = Null)
  /\ [][("rejected" \in {salesReq'.state, itemsReq'.state}) =>
          UNCHANGED <<salesReport, itemsReport>>]_vars

\* the sales request succeeded, the items request failed, nothing is stored
C20_Witness ==
  /\ route = "reports"
  /\ salesReq.state = "fulfilled"
  /\ itemsReq = Rejected
  /\ salesReport = Null /\ itemsReport = Null
  /\ ~loading

\* C21: requests are built from the page's last fetched snapshot, with no
\* re-fetch or comparison before sending. A click on the advance button
\* sends the transition computed from the displayed status, whatever the
\* backend's status has become; every displayed table card can be selected
\* whatever its status, and the submission sends the selected table's id
\* without fetching the tables first.
C21_StaleSnapshotSent ==
  /\ [](\A k \in 1..Len(orders) :
          AdvanceShown(orders[k]) /\ Len(gets) + Len(patches) < cap
            => ENABLED updateOrderStatus(k))
  /\ [](\A k \in 1..Len(tables) :
          route = "pos" /\ orderType = "dine_in"
            => ENABLED setSelectedTable(tables[k]))
  /\ [](route = "pos" /\ cart # <<>> /\ selectedTable # NoTable /\ CanSend
          => ENABLED handlePlaceOrder)
  /\ [][/\ \A k \in 1..Len(orders) :
             updateOrderStatus(k) =>
               /\ Issued(patches, patches') =
                    << [id |-> orders[k].id,
                        order_status |-> nextStatus(orders[k].order_status)] >>
               /\ UNCHANGED <<orders, gets, srvStatus>>
        /\ handlePlaceOrder /\ posts' # posts =>
               /\ Len(Issued(posts, posts')) = 1
               /\ orderType = "dine_in" =>
                    Issued(posts, posts')[1].payload.table_id = selectedTable.id
               /\ UNCHANGED <<tables, tablesGets, selectedTable>>]_vars

\* the advance of order 1 to preparing is in flight, computed from a card
\* that shows pending, while the backend holds the order as cancelled
C21_Witness ==
  /\ route = "orders"
  /\ \E k \in 1..Len(orders) :
       orders[k].id = 1 /\ orders[k].order_status = "pending"
  /\ srvStatus[1] = "cancelled"
  /\ patches = << [id |-> 1, order_status |-> "preparing"] >>

\* the lines of c have pairwise different item ids
NoDuplicateLine(c) ==
  \A j, k \in 1..Len(c) : c[j].item_id = c[k].item_id => j = k

\* C22: in every reachable state of the POS cart and of the customer cart
\* no two lines have the same item id.
C22_NoDuplicateItem ==
  NoDuplicateLine(cart) /\ NoDuplicateLine(custCart)

\* both menu items were added twice to the customer cart: two lines of
\* quantity 2
C22_Witness ==
  /\ route = "customer"
  /\ Len(custCart) = 2
  /\ \A k \in 1..Len(custCart) : custCart[k].quantity = 2

\* C23: the POS screen issues POST /orders only for a non-empty cart and,
\* on the dine-in channel, with a table selected; a Save or payment click
\* stopped by either guard issues no request, shows an error notification
\* and leaves the cart, the customer fields, the selected table and the
\* discount unchanged.
C23_GuardedSubmission ==
  [][/\ \A n \in 1..Len(Issued(posts, posts')) :
          LET payload == Issued(posts, posts')[n].payload
          IN /\ payload.items # <<>>
             /\ payload.items = cart
             /\ payload.order_type = "dine_in" =>
                  selectedTable # NoTable /\ payload.table_id = selectedTable.id
     /\ (handlePlaceOrder \/ processPayment)
           /\ ~(Len(cart) # 0 /\ ~(orderType = "dine_in" /\ selectedTable = NoTable))
         => /\ posts' = posts
            /\ InFlight' = InFlight
            /\ \E n \in 1..Len(toast') : toast'[n].kind = "error"
            /\ UNCHANGED <<cart, customerName, customerPhone, selectedTable,
                           discount, discountAmount, discountType, orderType>>]_vars

\* Save was clicked on a dine-in cart with no table selected
C23_Witness ==
  /\ route = "pos"
  /\ toast = <<Error("Please select a table")>>
  /\ cart # <<>> /\ orderType = "dine_in" /\ selectedTable = NoTable
  /\ posts = <<>>

\* the step shows the payment-success notification
PaymentSuccessShown ==
  \E n \in 1..Len(toast') : toast'[n] = Success("Payment processed")

\* C24: the payment-success notification is shown only by a step in which
\* the POST /orders awaited by processPayment is answered 2xx; a payment
\* click stopped by a guard, or whose POST fails, shows none.
C24_PaymentToastOnlyOnSuccess ==
  [][PaymentSuccessShown =>
       \E k \in 1..Len(posts) : posts[k].payment /\ PlaceOrderOk(k)]_vars

\* C25: a cart is submitted at most once: no POST /orders is issued while
\* another one carrying the same cart lines is still in flight, on the POS
\* screen and on the customer screen.
C25_SubmittedOnce ==
  [][/\ \A n \in 1..Len(Issued(posts, posts')) :
          \A k \in 1..Len(posts) :
            posts[k].payload.items # Issued(posts, posts')[n].payload.items
     /\ \A n \in 1..Len(Issued(custPosts, custPosts')) :
          \A k \in 1..Len(custPosts) :
            custPosts[k].items # Issued(custPosts, custPosts')[n].items]_vars

\* every line of c is a line of the payload's items, with the same quantity
SentWith(c, items) ==
  \A j \in 1..Len(c) :
    \E n \in 1..Len(items) :
      items[n].item_id = c[j].item_id /\ items[n].quantity = c[j].quantity

\* C26: every cart line discarded by the reset that follows a successful
\* POST /orders was part of that request's payload with the same quantity,
\* on the POS screen and on the customer screen.
C26_DiscardedWasSent ==
  [][/\ \A k \in 1..Len(posts) :
          PlaceOrderOk(k) => SentWith(cart, posts[k].payload.items)
     /\ \A k \in 1..Len(custPosts) :
          placeOrderOk(k) => SentWith(custCart, custPosts[k].items)]_vars

\* C27: once every request of the order list has been answered, the
\* displayed list is the response to the most recently issued GET /orders,
\* which in this specification is the backend's current list.
C27_LatestGetWins ==
  route = "orders" /\ gets = <<>> /\ patches = <<>> => orders = OrdersData

\* C28: the advance button is offered only for an order shown as pending,
\* preparing, ready or served; for any other status the backend returns no
\* click is possible and no status update is issued.
C28_ButtonOnlyForOpenStatus ==
  /\ [](\A k \in 1..Len(orders) :
          orders[k].order_status \notin {"pending", "preparing", "ready", "served"}
            => ~AdvanceShown(orders[k]) /\ ~ENABLED updateOrderStatus(k))
  /\ [][\A n \in 1..Len(Issued(patches, patches')) :
          \E k \in 1..Len(orders) :
            /\ IsFor(Issued(patches, patches')[n], orders[k])
            /\ orders[k].order_status \in {"pending", "preparing", "ready", "served"}]_vars

\* the totals rendered by the percentage-only POS variant
TotalsPct == calculateTotalsPct(cart, discount)

ProtectedPaths ==
  {"/dashboard", "/tables", "/categories", "/menu", "/orders", "/discounts"}
ProtectedPages ==
  {"AdminDashboard", "TablesPage", "CategoriesPage", "MenuPage", "OrdersPage",
   "DiscountsPage"}

\* C30: a protected admin page is rendered only while isAuthenticated is
\* true and loading is false; at a protected location the placeholder is
\* shown while loading, an unauthenticated visit is redirected to /login and
\* an authenticated one renders a protected page; an authenticated visit to
\* /login or / is redirected to /dashboard; the customer route is rendered
\* regardless of the session.
C30_ProtectedRoutes ==
  /\ [](/\ Rendered.kind = "page" /\ Rendered.arg \in ProtectedPages
             => isAuthenticated /\ ~authLoading
        /\ path \in ProtectedPaths /\ authLoading => Rendered = Placeholder
        /\ path \in ProtectedPaths /\ ~authLoading /\ ~isAuthenticated
             => Rendered = Navigate("/login")
        /\ path \in ProtectedPaths /\ ~authLoading /\ isAuthenticated
             => Rendered.kind = "page" /\ Rendered.arg \in ProtectedPages
        /\ path \in {"/login", "/"} /\ isAuthenticated
             => Rendered = Navigate("/dashboard")
        /\ path = "/order/1" => Rendered = Page("CustomerOrder"))
  /\ [][NavigateEffect => path' = Rendered.arg]_vars

\* an unauthenticated visit to /orders has been redirected to the login page
C30_Witness ==
  /\ route = "app"
  /\ ~isAuthenticated /\ ~authLoading
  /\ Len(history) >= 2
  /\ history[Len(history) - 1] = "/orders"
  /\ path = "/login"
  /\ Rendered = Page("LoginPage")
====
